---- MODULE Spec2Model ----
(***************************************************************************)
(* Verification model of the dataflow packet processing of readyset/noria: *)
(*   - materialization into (partial) node state, flow/node/process.rs     *)
(*   - reader, egress and listener fan-out,   flow/domain/single.rs        *)
(* Each component has its own variables, actions and specification; the    *)
(* variables of the other components stay at their initial value.          *)
(***************************************************************************)
EXTENDS Integers, Sequences, FiniteSets, TLC

VARIABLES
    \* ---- materialization (flow/node/process.rs)
    node,       \* the node being processed: [inner, base]
    state,      \* Option<State> of the node: <<>> or <<State>>
    m,          \* Option: the packet after Node::process, [tag, data]
    misses,     \* the Vec<Miss> returned by the last Node::process
    was,        \* Option: [data, state] as they were before the last process
    \* ---- reader (flow/domain/single.rs)
    reader,     \* the reader node: [partial, key, writer]
    backlog,    \* its backlog: [ready, w, r], write side and read side
    replayed,   \* partial reader: the keys for which a replay piece has been processed
    streamers,  \* the senders of the attached listeners, in order
    alive,      \* per listener: its receiver has not hung up
    rwas,       \* Option: the packet and the reader as they were before the last process
    rout,       \* Option: [data, sent] the records taken from the packet, the sends that succeeded
    \* ---- egress (flow/domain/single.rs)
    txs,        \* the egress's channels, in order: [globaddr, dst]
    tags,       \* its tag-routing table: tag -> global address of a child
    up,         \* per global address: the receiver of its channel has not hung up
    debug,      \* the build has debug assertions and overflow checks
    ewas,       \* Option: the packet and the egress as they were before the last process
    eout,       \* Option: [sent, m, panicked] the sends attempted, the packet left, a panic
    \* ---- join (ops/join.rs)
    jcfg,       \* the Joiner: [groups, outer, emit] as given to its Builder
    jtab,       \* per parent: [rows, st] its contents in insertion order, its Option<State>
    jnet,       \* join over two bases, per output row: positives minus negatives emitted so far
    jwas,       \* Option: the record and the parents as they were before the last on_input
    jout,       \* Option: [rs, misses] what the last on_input returned
    \* ---- union (ops/union.rs)
    uemit,      \* the Union: per parent, the columns it emits
    uprev,      \* Option: [from, rows] the parent and the rows emitted by the forward before the last
    uwas,       \* Option: [from, rs] the input of the last forward
    uout,       \* Option: the records the last forward returned
    \* ---- group_concat (ops/grouped/conkitten.rs)
    source_cols,    \* the number of aggregated columns of the GroupConkitten
    last_state,     \* its cache: group -> [string_repr, data_for_source_cols]
    kwas,       \* Option: [current, diffs, last_state] the input of the last apply
    kout,       \* Option: what the last apply returned, <<"Ok", text>> or <<"Err", error>>
    kresults,   \* group -> what the last apply for that group returned
    \* ---- a partial state below the state that holds the data (flow/node/process.rs)
    hbase,      \* the rows of the upstream state, the source of truth
    hstate,     \* the partial State of the node
    hreq,       \* the keys with a partial replay requested and not yet done
    hevicted,   \* the rows eviction took from the state and no replay brought back
    hwas,       \* Option: [rec, state] the record and the state before the last write
    hout,       \* Option: [rs, misses, ok] what materialize left of the last write
    \* ---- a TcpSender and its TcpReceiver (channel/src/tcp.rs)
    sender,     \* the TcpSender: [poisoned, alive]
    stream,     \* the bytes written to the connection and not yet read, in order
    arrived,    \* how many of them have reached the receiver's socket
    receiver,   \* the TcpReceiver: [poisoned, alive, buffer], buffer the bytes of the frame read so far
    tsent,       \* the messages whose send returned Ok, in order
    treceived,   \* the messages try_recv has returned, in order
    twas,       \* Option: [receiver, stream, arrived] before the last try_recv
    tout,       \* Option: what the last send or try_recv returned
    \* ---- ConsulAuthority (noria/src/consensus/consul.rs) and the Consul it talks to
    consul_kv,          \* Consul's key/value store: path -> [Value, Session, ModifyIndex, CreateIndex]
    consul_index,       \* Consul's index, raised by every write
    consul_sessions,    \* the ids of the live sessions
    authority,          \* per authority: [session, controller_index, pc, payload, current_val]
    called,             \* per authority: Option, the call it made last: [op, arg, before, res]
    \* ---- keys / provenance (noria/server/src/controller/keys.rs)
    graph,      \* the dataflow graph: node -> [kind, parents, fields, emit, literals, groups]
    traced,     \* Option: [node, columns, on_join, paths] the last provenance_of and what it returned
    \* ---- NodeDescriptor::process for Ingress and Internal (flow/domain/single.rs)
    snode,      \* the node: [inner, kernel]
    sstate,     \* Option<State> of the node
    sresult,    \* Option: the FinalProcessingResult of the last process
    swas        \* Option: [m, state] the packet and the state before the last process

mvars == <<node, state, m, misses, was>>
rvars == <<reader, backlog, replayed, streamers, alive, rwas, rout>>

evars == <<txs, tags, up, debug, ewas, eout>>
jvars == <<jcfg, jtab, jnet, jwas, jout>>
uvars == <<uemit, uprev, uwas, uout>>
kvars == <<source_cols, last_state, kwas, kout, kresults>>
hvars == <<hbase, hstate, hreq, hevicted, hwas, hout>>
tvars == <<sender, stream, arrived, receiver, tsent, treceived, twas, tout>>
dvars == <<mvars, rvars, evars, jvars, uvars, kvars, hvars>>
cvars == <<consul_kv, consul_index, consul_sessions, authority, called>>
pvars == <<graph, traced>>
svars == <<snode, sstate, sresult, swas>>
xvars == <<tvars, cvars, pvars, svars>>
ovars == <<jvars, uvars, kvars, hvars, xvars>>

vars == <<mvars, rvars, evars, ovars>>

(***************************************************************************)
(* Bounds of the exploration.                                              *)
(***************************************************************************)
MaxBatch == 2       \* records per packet
MaxRows == 1        \* rows kept in one bucket of a state
MaxBacklog == 2     \* rows kept on the write side of a reader backlog
MaxTxs == 3         \* channels of an egress
MaxBase == 2        \* rows held by one parent of a join
MaxSeq == 3         \* values cached for one column of one group of a group_concat
MaxMsgs == 2        \* messages sent on one TcpSender
MaxIndex == 5       \* writes to Consul
MaxKey == 2         \* columns traced by one provenance_of
MaxNet == 1         \* copies of one output row a join has emitted, net

(***************************************************************************)
(* Data model: values, rows, records.                                      *)
(***************************************************************************)
DataType == {1, 2}
\* the rows of the explored table: two share their first column, two their second
Row == {<<1, 1>>, <<1, 2>>, <<2, 1>>}
Record == [sign : {"Positive", "Negative"}, row : Row]

None == <<>>
Some(x) == <<x>>
Range(q) == {q[i] : i \in 1..Len(q)}
is_some(o) == o # <<>>
unwrap(o) == o[1]

RECURSIVE Count(_, _)
Count(s, x) ==
    IF s = <<>> THEN 0
    ELSE (IF Head(s) = x THEN 1 ELSE 0) + Count(Tail(s), x)

RECURSIVE RemoveOne(_, _)
RemoveOne(s, x) ==
    IF s = <<>> THEN <<>>
    ELSE IF Head(s) = x THEN Tail(s)
    ELSE <<Head(s)>> \o RemoveOne(Tail(s), x)

RECURSIVE Filter(_, _)
Filter(s, keep) ==
    IF s = <<>> THEN <<>>
    ELSE (IF Head(s) \in keep THEN <<Head(s)>> ELSE <<>>) \o Filter(Tail(s), keep)

(***************************************************************************)
(* State: a sequence of declared indices; index i keeps, for every filled  *)
(* key, the rows with that key.  A key outside the domain of a partial     *)
(* index is a hole.                                                        *)
(***************************************************************************)
IndexKey(r, cols) == [j \in 1..Len(cols) |-> r[cols[j]]]
KeysOf(cols) == [1..Len(cols) -> DataType]

new_state(indices, partial) ==
    [partial |-> partial,
     state |-> [i \in 1..Len(indices) |->
                  [key |-> indices[i],
                   rows |-> IF partial THEN << >>
                            ELSE [k \in KeysOf(indices[i]) |-> << >>]]]]

is_partial(s) == s.partial

is_hole(s, i, r) == IndexKey(r, s.state[i].key) \notin DOMAIN s.state[i].rows

\* the columns of the first declared index under which r's key is a hole
hits_hole(s, r) ==
    LET holes == {i \in 1..Len(s.state) : is_hole(s, i, r)}
    IN  IF holes = {} THEN None
        ELSE Some(s.state[CHOOSE i \in holes : \A j \in holes : i <= j].key)

insert(s, r, partial_tag) ==
    IF s.partial /\ partial_tag = None /\ hits_hole(s, r) # None THEN s
    ELSE [s EXCEPT !.state = [i \in 1..Len(s.state) |->
            IF is_hole(s, i, r) THEN s.state[i]
            ELSE [s.state[i] EXCEPT !.rows[IndexKey(r, s.state[i].key)] = Append(@, r)]]]

remove(s, r) ==
    [s EXCEPT !.state = [i \in 1..Len(s.state) |->
        IF is_hole(s, i, r) THEN s.state[i]
        ELSE [s.state[i] EXCEPT !.rows[IndexKey(r, s.state[i].key)] = RemoveOne(@, r)]]]

\* remove's error case: the row is absent from a filled key
can_remove(s, r) ==
    \A i \in 1..Len(s.state) :
        is_hole(s, i, r) \/ Count(s.state[i].rows[IndexKey(r, s.state[i].key)], r) > 0

mark_filled(s, i, k) ==
    [s EXCEPT !.state[i].rows = [x \in DOMAIN @ \cup {k} |-> IF x \in DOMAIN @ THEN @[x] ELSE << >>]]

mark_hole(s, i, k) ==
    [s EXCEPT !.state[i].rows = [x \in DOMAIN @ \ {k} |-> @[x]]]

(***************************************************************************)
(* materialize (flow/node/process.rs)                                      *)
(***************************************************************************)
Miss(n, cols, r) == [node |-> n, key |-> IndexKey(r, cols)]

apply_record(s, r, partial) ==
    IF r.sign = "Positive" THEN insert(s, r.row, partial) ELSE remove(s, r.row)

record_ok(s, r) == r.sign = "Positive" \/ can_remove(s, r.row)

\* a closure that reports the miss but returns true for the record that missed
retain_closure_keeps_miss(acc, r, n, partial) ==
    LET columns == hits_hole(acc.state, r.row)
    IN  IF is_some(columns)
        THEN [acc EXCEPT !.holes = Append(@, Miss(n, unwrap(columns), r.row)),
                         !.rs = Append(@, r)]
        ELSE [acc EXCEPT !.state = apply_record(@, r, partial),
                         !.rs = Append(@, r),
                         !.ok = @ /\ record_ok(acc.state, r)]

\* a closure that drops the record that missed and reports nothing
retain_closure_silent(acc, r, n, partial) ==
    LET columns == hits_hole(acc.state, r.row)
    IN  IF is_some(columns)
        THEN acc
        ELSE [acc EXCEPT !.state = apply_record(@, r, partial),
                         !.rs = Append(@, r),
                         !.ok = @ /\ record_ok(acc.state, r)]

\* one call of the closure given to rs.retain; acc = [state, rs, holes, ok]
retain_closure(acc, r, n, partial) ==
    LET columns == hits_hole(acc.state, r.row)
    IN  IF is_some(columns)
        THEN [acc EXCEPT !.holes = Append(@, Miss(n, unwrap(columns), r.row))]
        ELSE [acc EXCEPT !.state = apply_record(@, r, partial),
                         !.rs = Append(@, r),
                         !.ok = @ /\ record_ok(acc.state, r)]

RECURSIVE retain(_, _, _, _)
retain(rs, acc, n, partial) ==
    IF rs = <<>> THEN acc
    ELSE retain(Tail(rs), retain_closure(acc, Head(rs), n, partial), n, partial)

RECURSIVE apply_all(_, _, _)
apply_all(rs, acc, partial) ==
    IF rs = <<>> THEN acc
    ELSE apply_all(Tail(rs),
                   [acc EXCEPT !.state = apply_record(@, Head(rs), partial),
                               !.rs = Append(@, Head(rs)),
                               !.ok = @ /\ record_ok(acc.state, Head(rs))],
                   partial)

\* a materialize that gives up at the first record that misses
RECURSIVE retain_until_miss(_, _, _, _)
retain_until_miss(rs, acc, n, partial) ==
    IF rs = <<>> THEN acc
    ELSE IF is_some(hits_hole(acc.state, Head(rs).row))
         THEN retain_closure(acc, Head(rs), n, partial)
         ELSE retain_until_miss(Tail(rs), retain_closure(acc, Head(rs), n, partial), n, partial)

materialize_until_miss(rs, n, partial, st) ==
    IF st = None
    THEN [rs |-> rs, state |-> None, holes |-> <<>>, ok |-> TRUE]
    ELSE LET acc0 == [state |-> unwrap(st), rs |-> <<>>, holes |-> <<>>, ok |-> TRUE]
             res == IF is_partial(unwrap(st))
                    THEN retain_until_miss(rs, acc0, n, partial)
                    ELSE apply_all(rs, acc0, partial)
         IN  [rs |-> res.rs, state |-> Some(res.state), holes |-> res.holes, ok |-> res.ok]

\* returns [rs, state, holes, ok]: the records left, the Option<State> after,
\* the misses, and whether every remove found its row
materialize(rs, n, partial, st) ==
    IF st = None
    THEN [rs |-> rs, state |-> None, holes |-> <<>>, ok |-> TRUE]
    ELSE LET acc0 == [state |-> unwrap(st), rs |-> <<>>, holes |-> <<>>, ok |-> TRUE]
             res == IF is_partial(unwrap(st))
                    THEN retain(rs, acc0, n, partial)
                    ELSE apply_all(rs, acc0, partial)
         IN  [rs |-> res.rs, state |-> Some(res.state), holes |-> res.holes, ok |-> res.ok]

(***************************************************************************)
(* Node::process (flow/node/process.rs) for Ingress and Internal nodes.    *)
(***************************************************************************)
ThisNode == "addr"

Packet(kind, tag, data) == [kind |-> kind, tag |-> tag, data |-> data]
is_regular(p) == p.kind \in {"Message", "Transaction"}

\* the packets that can arrive at the node: a regular message, or a replay
\* piece along the tag of the state's first index
Batches == UNION {[1..n -> Record] : n \in 0..MaxBatch}
Packets ==
    {Packet("Message", None, rs) : rs \in Batches} \cup
    {Packet("ReplayPiece", Some(1), rs) : rs \in Batches}

\* the operator of an Internal node; the identity kernel passes records through
on_input_raw(data) == [results |-> data, misses |-> <<>>]

\* a Node::process that materializes every packet, replays through a base too
Node_process_materializes_replays(p, st) ==
    LET out == IF node.inner = "Ingress" THEN [results |-> p.data, misses |-> <<>>]
               ELSE on_input_raw(p.data)
        res == materialize(out.results, ThisNode, p.tag, st)
    IN  [m |-> [p EXCEPT !.data = res.rs], state |-> res.state,
         misses |-> out.misses \o res.holes, ok |-> res.ok]

\* returns [m, state, misses, ok]
Node_process(p, st) ==
    IF node.inner = "Ingress"
    THEN LET res == materialize(p.data, ThisNode, p.tag, st)
         IN  [m |-> [p EXCEPT !.data = res.rs], state |-> res.state,
              misses |-> res.holes, ok |-> res.ok]
    ELSE LET out == on_input_raw(p.data)
             p1 == [p EXCEPT !.data = out.results]
         IN  IF is_regular(p1) \/ ~node.base
             THEN LET res == materialize(p1.data, ThisNode, p1.tag, st)
                  IN  [m |-> [p1 EXCEPT !.data = res.rs], state |-> res.state,
                       misses |-> out.misses \o res.holes, ok |-> res.ok]
             ELSE [m |-> p1, state |-> st, misses |-> out.misses, ok |-> TRUE]

WithinRows(st) ==
    IF st = None THEN TRUE
    ELSE \A i \in 1..Len(unwrap(st).state) :
        \A k \in DOMAIN unwrap(st).state[i].rows :
            Len(unwrap(st).state[i].rows[k]) <= MaxRows

\* the domain hands packet p to the node
Process(p) ==
    LET res == Node_process(p, state)
    IN  /\ m = None
        /\ res.ok
        /\ WithinRows(res.state)
        /\ was' = Some([data |-> p.data, state |-> state])
        /\ m' = Some(res.m)
        /\ misses' = res.misses
        /\ state' = res.state
        /\ UNCHANGED <<node, rvars, evars, ovars>>

\* the domain takes the processed packet and the misses from the node
Forward ==
    /\ m # None
    /\ m' = None /\ misses' = <<>> /\ was' = None
    /\ UNCHANGED <<node, state, rvars, evars, ovars>>

\* the domain's replay handling fills a key of a partial state
MarkFilled(i, k) ==
    /\ m = None
    /\ state # None /\ is_partial(unwrap(state))
    /\ i \in 1..Len(unwrap(state).state)
    /\ k \in KeysOf(unwrap(state).state[i].key) \ DOMAIN unwrap(state).state[i].rows
    /\ state' = Some(mark_filled(unwrap(state), i, k))
    /\ UNCHANGED <<node, m, misses, was, rvars, evars, ovars>>

\* eviction turns a filled key of a partial state back into a hole
MarkHole(i, k) ==
    /\ m = None
    /\ state # None /\ is_partial(unwrap(state))
    /\ i \in 1..Len(unwrap(state).state)
    /\ k \in DOMAIN unwrap(state).state[i].rows
    /\ state' = Some(mark_hole(unwrap(state), i, k))
    /\ UNCHANGED <<node, m, misses, was, rvars, evars, ovars>>

(***************************************************************************)
(* Reader backlog: a write side and a read side, keyed by one column.  The *)
(* read side is what lookups see; swap publishes the write side.           *)
(***************************************************************************)
new_backlog ==
    [ready |-> FALSE, w |-> [rows |-> << >>, ts |-> 0], r |-> [rows |-> << >>, ts |-> 0]]

\* ReadHandle::find_and(key, |_| ()): Err before the first swap, else whether
\* the read side holds the key
find_and(bl, k) ==
    IF ~bl.ready THEN "Err"
    ELSE IF k \in DOMAIN bl.r.rows THEN "Ok(Some)" ELSE "Ok(None)"

backlog_insert(rows, k, r) ==
    [x \in DOMAIN rows \cup {k} |->
        IF x = k THEN (IF k \in DOMAIN rows THEN Append(rows[k], r) ELSE <<r>>)
        ELSE rows[x]]

backlog_remove(rows, k, r) ==
    IF k \in DOMAIN rows THEN [rows EXCEPT ![k] = RemoveOne(@, r)] ELSE rows

RECURSIVE add(_, _, _)
add(bl, rs, key) ==
    IF rs = <<>> THEN bl
    ELSE LET r == Head(rs)
             k == r.row[key]
         IN  add([bl EXCEPT !.w.rows = IF r.sign = "Positive"
                                       THEN backlog_insert(@, k, r.row)
                                       ELSE backlog_remove(@, k, r.row)],
                 Tail(rs), key)

\* every negative of rs finds its row on the write side when it is applied
RECURSIVE add_ok(_, _, _)
add_ok(bl, rs, key) ==
    IF rs = <<>> THEN TRUE
    ELSE LET r == Head(rs)
             k == r.row[key]
         IN  /\ r.sign = "Negative" => (k \in DOMAIN bl.w.rows /\ Count(bl.w.rows[k], r.row) > 0)
             /\ add_ok(add(bl, <<r>>, key), Tail(rs), key)

update_ts(bl, ts) == [bl EXCEPT !.w.ts = ts]

swap(bl) == [bl EXCEPT !.r = bl.w, !.ready = TRUE]

\* what a client lookup of key k returns: <<"Hit", rows>> or <<"Miss">>
lookup(bl, k) ==
    IF bl.ready /\ k \in DOMAIN bl.r.rows THEN <<"Hit", bl.r.rows[k]>> ELSE <<"Miss">>

(***************************************************************************)
(* NodeDescriptor::process for a Reader (flow/domain/single.rs).           *)
(***************************************************************************)
RECURSIVE retain_rows(_, _, _, _)
retain_rows(data, bl, key, keep) ==
    IF data = <<>> THEN <<>>
    ELSE (IF find_and(bl, Head(data).row[key]) \in keep THEN <<Head(data)>> ELSE <<>>)
         \o retain_rows(Tail(data), bl, key, keep)

\* a filter that lets regular records through to a partial reader
reader_filter_regular_unchecked(p, rd, bl) ==
    IF rd.writer /\ rd.partial /\ ~is_regular(p)
    THEN retain_rows(p.data, bl, rd.key, {"Ok(None)", "Err"})
    ELSE p.data

\* the records of the packet after the two partial-state filters
reader_filter(p, rd, bl) ==
    IF rd.writer /\ rd.partial
    THEN IF is_regular(p)
         THEN retain_rows(p.data, bl, rd.key, {"Ok(Some)"})
         ELSE retain_rows(p.data, bl, rd.key, {"Ok(None)", "Err"})
    ELSE p.data

\* the regular-packet filter reaches unreachable!() on Err
reader_panics(p, rd, bl) ==
    rd.writer /\ rd.partial /\ is_regular(p) /\ p.data # <<>> /\ ~bl.ready

\* a write that swaps whatever the swap flag says
reader_write_always_swaps(p, do_swap, rd, bl) ==
    IF ~rd.writer THEN bl
    ELSE LET added == add(bl, reader_filter(p, rd, bl), rd.key)
             stamped == IF p.kind = "Transaction" THEN update_ts(added, p.ts) ELSE added
         IN  swap(stamped)

\* the write handle after state.add, update_ts and the swap
reader_write(p, do_swap, rd, bl) ==
    IF ~rd.writer THEN bl
    ELSE LET added == add(bl, reader_filter(p, rd, bl), rd.key)
             stamped == IF p.kind = "Transaction" THEN update_ts(added, p.ts) ELSE added
         IN  IF do_swap THEN swap(stamped) ELSE stamped

\* a closure that keeps every sender, whatever its send returned
streamer_closure_keeps_all(acc, tx, isup) ==
    LET left == acc.left - 1
        payload == unwrap(acc.data)
        ok == isup[tx]
    IN  [left |-> left,
         data |-> IF left = 0 THEN None ELSE acc.data,
         txs |-> Append(acc.txs, tx),
         sent |-> IF ok THEN Append(acc.sent, [to |-> tx, data |-> payload]) ELSE acc.sent]

\* txs.retain over the streamers; acc = [left, data, txs, sent]
streamer_closure(acc, tx, isup) ==
    LET left == acc.left - 1
        payload == unwrap(acc.data)
        ok == isup[tx]
    IN  [left |-> left,
         data |-> IF left = 0 THEN None ELSE acc.data,
         txs |-> IF ok THEN Append(acc.txs, tx) ELSE acc.txs,
         sent |-> IF ok THEN Append(acc.sent, [to |-> tx, data |-> payload]) ELSE acc.sent]

RECURSIVE retain_streamers(_, _, _)
retain_streamers(senders, acc, isup) ==
    IF senders = <<>> THEN acc
    ELSE retain_streamers(Tail(senders), streamer_closure(acc, Head(senders), isup), isup)

reader_fanout(data, senders, isup) ==
    retain_streamers(senders, [left |-> Len(senders), data |-> Some(data), txs |-> <<>>, sent |-> <<>>], isup)

ReaderPacket(kind, data, ts, key) == [kind |-> kind, data |-> data, ts |-> ts, for_key |-> key]

RECURSIVE SumLen(_, _)
SumLen(f, keys) ==
    IF keys = {} THEN 0
    ELSE LET k == CHOOSE x \in keys : TRUE IN Len(f[k]) + SumLen(f, keys \ {k})

WithinBacklog(bl) == SumLen(bl.w.rows, DOMAIN bl.w.rows) <= MaxBacklog

\* the domain hands packet p to the reader, with its swap decision
ReaderProcess(p, do_swap) ==
    LET data == reader_filter(p, reader, backlog)
        bl == reader_write(p, do_swap, reader, backlog)
        fan == reader_fanout(data, streamers, alive)
    IN  /\ rout = None
        /\ ~reader_panics(p, reader, backlog)
        /\ reader.writer => add_ok(backlog, data, reader.key)
        /\ WithinBacklog(bl)
        /\ rwas' = Some([p |-> p, swap |-> do_swap, backlog |-> backlog,
                         replayed |-> replayed, streamers |-> streamers, alive |-> alive])
        /\ backlog' = bl
        /\ replayed' = IF is_regular(p) \/ ~(reader.writer /\ reader.partial) THEN replayed
                        ELSE replayed \cup {p.for_key}
        /\ streamers' = fan.txs
        /\ rout' = Some([data |-> data, sent |-> fan.sent])
        /\ UNCHANGED <<reader, alive, mvars, evars, ovars>>

\* the domain goes on to its next packet
ReaderDone ==
    /\ rout # None
    /\ rout' = None /\ rwas' = None
    /\ UNCHANGED <<reader, backlog, replayed, streamers, alive, mvars, evars, ovars>>

\* the receiver of a listener hangs up
HangUp(l) ==
    /\ rout = None
    /\ alive[l]
    /\ \E i \in 1..Len(streamers) : streamers[i] = l
    /\ alive' = [alive EXCEPT ![l] = FALSE]
    /\ UNCHANGED <<reader, backlog, replayed, streamers, rwas, rout, mvars, evars, ovars>>

Listeners == {"l1", "l2", "l3"}

\* the rows of the explored view, one per key
ReaderRow == {<<1, 1>>, <<2, 1>>}
ReaderRecord == [sign : {"Positive", "Negative"}, row : ReaderRow]
ReaderBatches == UNION {[1..n -> ReaderRecord] : n \in 0..MaxBatch}

\* regular packets carry any records; a replay piece carries rows of one key
ReplayBatches(key, k) ==
    UNION {[1..n -> {r \in ReaderRecord : r.sign = "Positive" /\ r.row[key] = k}] : n \in 0..MaxBatch}

ReaderPackets ==
    {ReaderPacket("Message", rs, 0, 0) : rs \in ReaderBatches} \cup
    {ReaderPacket("Transaction", rs, 1, 0) : rs \in ReaderBatches} \cup
    UNION {{ReaderPacket("Replay", rs, 0, k) : rs \in ReplayBatches(reader.key, k)} : k \in DataType}

ReaderConfigs ==
    {[reader |-> [partial |-> TRUE, key |-> 1, writer |-> TRUE], streamers |-> <<"l1">>],
     [reader |-> [partial |-> FALSE, key |-> 1, writer |-> TRUE], streamers |-> << >>],
     [reader |-> [partial |-> FALSE, key |-> 1, writer |-> FALSE], streamers |-> <<"l1", "l2", "l3">>]}

ReaderIdle ==
    /\ reader = [partial |-> FALSE, key |-> 1, writer |-> FALSE]
    /\ backlog = new_backlog /\ replayed = {} /\ streamers = << >>
    /\ alive = [l \in Listeners |-> TRUE]
    /\ rwas = None /\ rout = None


(***************************************************************************)
(* NodeDescriptor::process for an Egress (flow/domain/single.rs).          *)
(***************************************************************************)
GlobalAddr == 1..MaxTxs
Tags == {"t1", "t2"}
EgressIndex == "egress"
local_dst(g) == <<"local", g>>

EgressPacket(kind, tag, data, link) == [kind |-> kind, tag |-> tag, data |-> data, link |-> link]

\* tags.get(&tag) of a Packet::Replay, None for any other packet
replay_to(p, tgs) == IF p.kind = "Replay" THEN Some(tgs[p.tag]) ELSE None

\* .expect(..) on a tag the egress has not been told about
egress_expect_fails(p, tgs) == p.kind = "Replay" /\ p.tag \notin DOMAIN tgs

\* a loop that never skips a channel
egress_skips_never(rto, globaddr) == FALSE

\* the loop continues past a channel that is not the replay's destination
egress_skips(rto, globaddr) == is_some(rto) /\ unwrap(rto) # globaddr

\* a loop that clones for every channel
egress_take_never(txi, txn, rto) == FALSE

\* take: the last channel, or the channel a replay is for
egress_take(txi, txn, rto) == IF is_some(rto) THEN TRUE ELSE txi = txn

\* the for loop over txs from position i on, txi = i - 1; mm is Option<Packet>
RECURSIVE egress_loop(_, _, _, _, _, _, _)
egress_loop(chans, i, txn, rto, mm, sent, isup) ==
    IF i > Len(chans) THEN [m |-> mm, sent |-> sent]
    ELSE LET t == chans[i]
         IN  IF egress_skips(rto, t.globaddr)
             THEN egress_loop(chans, i + 1, txn, rto, mm, sent, isup)
             ELSE LET take == egress_take(i - 1, txn, rto)
                      pkt == [unwrap(mm) EXCEPT !.link = [src |-> EgressIndex, dst |-> t.dst]]
                      left == IF take THEN None ELSE mm
                      ok == isup[t.globaddr]
                      out == Append(sent, [txi |-> i, packet |-> pkt, original |-> take, ok |-> ok])
                 IN  IF ~ok THEN [m |-> left, sent |-> out]
                     ELSE IF take THEN [m |-> left, sent |-> out]
                     ELSE egress_loop(chans, i + 1, txn, rto, left, out, isup)

\* the Egress branch: what was sent, what is left of the packet, and whether
\* the build panicked (len() - 1 on no channel and debug_assert!(m.is_none())
\* in a debug build, the expect in every build)
egress_process(p, chans, tgs, isup, dbg) ==
    IF dbg /\ Len(chans) = 0 THEN [sent |-> << >>, m |-> Some(p), panicked |-> TRUE]
    ELSE IF egress_expect_fails(p, tgs) THEN [sent |-> << >>, m |-> Some(p), panicked |-> TRUE]
    ELSE LET res == egress_loop(chans, 1, Len(chans) - 1, replay_to(p, tgs), Some(p), << >>, isup)
         IN  [sent |-> res.sent, m |-> res.m, panicked |-> dbg /\ is_some(res.m)]

\* the domain hands packet p to the egress
EgressProcess(p) ==
    /\ eout = None
    /\ ewas' = Some([p |-> p, txs |-> txs, tags |-> tags, up |-> up])
    /\ eout' = Some(egress_process(p, txs, tags, up, debug))
    /\ UNCHANGED <<txs, tags, up, debug, mvars, rvars, ovars>>

\* the domain goes on to its next packet
EgressDone ==
    /\ eout # None
    /\ eout' = None /\ ewas' = None
    /\ UNCHANGED <<txs, tags, up, debug, mvars, rvars, ovars>>

\* UpdateEgress with a new channel: a child that has none yet gets one
AddTx(g) ==
    /\ eout = None
    /\ Len(txs) < MaxTxs
    /\ \A i \in 1..Len(txs) : txs[i].globaddr # g
    /\ txs' = Append(txs, [globaddr |-> g, dst |-> local_dst(g)])
    /\ UNCHANGED <<tags, up, debug, ewas, eout, mvars, rvars, ovars>>

\* UpdateEgress with a new tag: the replay path of tag t leads to child g
AddTag(t, g) ==
    /\ eout = None
    /\ t \notin DOMAIN tags
    /\ \E i \in 1..Len(txs) : txs[i].globaddr = g
    /\ tags' = [x \in DOMAIN tags \cup {t} |-> IF x = t THEN g ELSE tags[x]]
    /\ UNCHANGED <<txs, up, debug, ewas, eout, mvars, rvars, ovars>>

\* the receiving domain of a channel goes away
CloseChannel(g) ==
    /\ eout = None
    /\ up[g]
    /\ \E i \in 1..Len(txs) : txs[i].globaddr = g
    /\ up' = [up EXCEPT ![g] = FALSE]
    /\ UNCHANGED <<txs, tags, debug, ewas, eout, mvars, rvars, ovars>>

EgressData == {<< >>, <<[sign |-> "Positive", row |-> <<1, 1>>]>>}
IncomingLink == [src |-> "parent", dst |-> EgressIndex]

EgressPackets ==
    {EgressPacket("Message", None, d, IncomingLink) : d \in EgressData} \cup
    {EgressPacket("Replay", t, d, IncomingLink) : t \in Tags, d \in EgressData}

EgressIdle ==
    /\ txs = << >> /\ tags = << >> /\ up = [g \in GlobalAddr |-> TRUE]
    /\ debug = FALSE /\ ewas = None /\ eout = None


(***************************************************************************)
(* Joiner (ops/join.rs): a two-way join of the parents "l" and "r".        *)
(***************************************************************************)
Sides == {"l", "r"}
other_side(src) == IF src = "l" THEN "r" ELSE "l"

\* query::DataType::None
DataType_None == 0

\* g2c of From<Builder>: which column of a view is bound to which group
g2c(srcg) ==
    [g \in {srcg[c] : c \in DOMAIN srcg} \ {0} |-> CHOOSE c \in DOMAIN srcg : srcg[c] = g]

\* the (srci, pi) pairs of From<Builder>: the columns pi of the other view
\* that share a group with a column srci of src, in the order of pi
RECURSIVE join_fields(_, _, _)
join_fields(srcg, pg, pi) ==
    IF pi > Len(pg) THEN << >>
    ELSE (IF pg[pi] \in DOMAIN g2c(srcg) THEN << <<g2c(srcg)[pg[pi]], pi>> >> ELSE << >>)
         \o join_fields(srcg, pg, pi + 1)

\* JoinTarget of src against the other view
JoinTarget(cfg, src) ==
    [fields |-> join_fields(cfg.groups[src], cfg.groups[other_side(src)], 1),
     outer |-> cfg.outer[other_side(src)]]

\* the shortcut conditions: column righti of the other view equals left[lefti]
join_params(fields, left) ==
    [i \in 1..Len(fields) |-> [column |-> fields[i][2], value |-> left[fields[i][1]]]]

satisfies(row, having) == \A i \in 1..Len(having) : row[having[i].column] = having[i].value
Matching(having) == {row \in Row : satisfies(row, having)}

\* State::find: the rows held under the key the conditions name, none for a hole
find(st, having) ==
    LET k == [i \in 1..Len(having) |-> having[i].value]
    IN  IF k \in DOMAIN st.state[1].rows
        THEN Filter(st.state[1].rows[k], Matching(having))
        ELSE << >>

\* query of a parent that is not materialized: its rows that satisfy having
query(rows, having) == Filter(rows, Matching(having))

\* a weave that takes every column from the record that arrived
weave_left_only(emit, left, right, other) ==
    [i \in 1..Len(emit) |-> left[emit[i][2]]]

\* one output row: column i from the source and column emit[i] names
weave(emit, left, right, other) ==
    [i \in 1..Len(emit) |-> IF emit[i][1] = other THEN right[emit[i][2]] ELSE left[emit[i][2]]]

\* the zero row of a left join
zero_row(emit, left, other) ==
    [i \in 1..Len(emit) |-> IF emit[i][1] = other THEN DataType_None ELSE left[emit[i][2]]]

\* a join that never pads
Joiner_join_never_pads(cfg, from, left, tab) ==
    LET other == other_side(from)
        target == JoinTarget(cfg, from)
        having == join_params(target.fields, left)
        rx == IF is_some(tab[other].st) THEN find(unwrap(tab[other].st), having)
              ELSE query(tab[other].rows, having)
    IN  [k \in 1..Len(rx) |-> weave(cfg.emit, left, rx[k], other)]

\* Joiner::join: the output rows for the row left that arrived from from
Joiner_join(cfg, from, left, tab) ==
    LET other == other_side(from)
        target == JoinTarget(cfg, from)
        having == join_params(target.fields, left)
        rx == IF is_some(tab[other].st) THEN find(unwrap(tab[other].st), having)
              ELSE query(tab[other].rows, having)
    IN  IF rx = << >> /\ target.outer
        THEN << zero_row(cfg.emit, left, other) >>
        ELSE [k \in 1..Len(rx) |-> weave(cfg.emit, left, rx[k], other)]

\* an on_input that emits every row as a positive
RECURSIVE Joiner_on_input_all_positive(_, _, _, _)
Joiner_on_input_all_positive(cfg, from, rs, tab) ==
    IF rs = << >> THEN << >>
    ELSE LET res == Joiner_join(cfg, from, Head(rs).row, tab)
         IN  [k \in 1..Len(res) |-> [sign |-> "Positive", row |-> res[k]]]
             \o Joiner_on_input_all_positive(cfg, from, Tail(rs), tab)

\* Joiner::on_input: the flat_map over the records of the update
RECURSIVE Joiner_on_input(_, _, _, _)
Joiner_on_input(cfg, from, rs, tab) ==
    IF rs = << >> THEN << >>
    ELSE LET res == Joiner_join(cfg, from, Head(rs).row, tab)
         IN  [k \in 1..Len(res) |-> [sign |-> Head(rs).sign, row |-> res[k]]]
             \o Joiner_on_input(cfg, from, Tail(rs), tab)

\* the net count of emitted rows after the records rs
RECURSIVE net_add(_, _)
net_add(net, rs) ==
    IF rs = << >> THEN net
    ELSE LET o == Head(rs).row
             d == IF Head(rs).sign = "Positive" THEN 1 ELSE 0 - 1
             n == (IF o \in DOMAIN net THEN net[o] ELSE 0) + d
         IN  net_add([x \in (DOMAIN net \cup {o}) \ (IF n = 0 THEN {o} ELSE {}) |->
                         IF x = o THEN n ELSE net[x]],
                     Tail(rs))

\* the columns of the index the join looks a parent up by
lookup_cols(cfg, side) ==
    LET f == JoinTarget(cfg, other_side(side)).fields
    IN  [i \in 1..Len(f) |-> f[i][2]]

\* both parents are bases, which hold all their rows in full state
over_bases(tab) == \A sd \in Sides : is_some(tab[sd].st) /\ ~is_partial(unwrap(tab[sd].st))

\* a write reaches parent side, which materializes it and hands the records
\* that did not miss to the join
JoinWrite(side, rec) ==
    LET mat == materialize(<<rec>>, side, None, jtab[side].st)
        rows == IF rec.sign = "Positive" THEN Append(jtab[side].rows, rec.row)
                ELSE RemoveOne(jtab[side].rows, rec.row)
        tab == [jtab EXCEPT ![side] = [rows |-> rows, st |-> mat.state]]
        out == Joiner_on_input(jcfg, side, mat.rs, tab)
        net == IF over_bases(jtab) THEN net_add(jnet, out) ELSE jnet
    IN  /\ jout = None
        /\ IF rec.sign = "Positive" THEN Len(jtab[side].rows) < MaxBase
           ELSE Count(jtab[side].rows, rec.row) > 0
        /\ \A o \in DOMAIN net : net[o] <= MaxNet /\ 0 - net[o] <= MaxNet
        /\ jwas' = Some([from |-> side, rec |-> rec, tab |-> jtab, reached |-> mat.rs # << >>])
        /\ jtab' = tab
        /\ jnet' = net
        /\ jout' = Some([rs |-> out, misses |-> << >>])
        /\ UNCHANGED <<jcfg, mvars, rvars, evars, uvars, kvars, hvars, xvars>>

\* the domain goes on to its next packet
JoinDone ==
    /\ jout # None
    /\ jout' = None /\ jwas' = None
    /\ UNCHANGED <<jcfg, jtab, jnet, mvars, rvars, evars, uvars, kvars, hvars, xvars>>

\* a replay fills key k of a partial parent with the parent's rows of that key
JoinFill(side, k) ==
    /\ jout = None
    /\ is_some(jtab[side].st) /\ is_partial(unwrap(jtab[side].st))
    /\ k \notin DOMAIN unwrap(jtab[side].st).state[1].rows
    /\ jtab' = [jtab EXCEPT ![side].st = Some(
            [unwrap(@) EXCEPT !.state[1].rows =
                [x \in DOMAIN @ \cup {k} |->
                    IF x = k
                    THEN Filter(jtab[side].rows,
                                {row \in Row : IndexKey(row, lookup_cols(jcfg, side)) = k})
                    ELSE @[x]]])]
    /\ UNCHANGED <<jcfg, jnet, jwas, jout, mvars, rvars, evars, uvars, kvars, hvars, xvars>>

\* eviction turns key k of a partial parent back into a hole
JoinEvict(side, k) ==
    /\ jout = None
    /\ is_some(jtab[side].st) /\ is_partial(unwrap(jtab[side].st))
    /\ k \in DOMAIN unwrap(jtab[side].st).state[1].rows
    /\ jtab' = [jtab EXCEPT ![side].st = Some(mark_hole(unwrap(@), 1, k))]
    /\ UNCHANGED <<jcfg, jnet, jwas, jout, mvars, rvars, evars, uvars, kvars, hvars, xvars>>

\* the joins explored: on the first column of both parents, or the second
\* column of l against the first of r; inner or left; emitting columns of both
JoinShapes ==
    {[groups |-> [l |-> <<1, 0>>, r |-> <<1, 0>>],
      emit |-> << <<"l", 1>>, <<"l", 2>>, <<"r", 2>> >>],
     [groups |-> [l |-> <<0, 1>>, r |-> <<1, 0>>],
      emit |-> << <<"r", 2>>, <<"l", 1>> >>]}

JoinConfigs ==
    {[groups |-> sh.groups, emit |-> sh.emit, outer |-> [l |-> FALSE, r |-> o]] :
        sh \in JoinShapes, o \in BOOLEAN}

\* how the parents are kept: bases with full state, partial views, or views
\* that are not materialized
Materializations == {"full", "partial", "none"}
parent_state(cfg, side, mz) ==
    IF mz = "none" THEN None
    ELSE Some(new_state(<< lookup_cols(cfg, side) >>, mz = "partial"))

JoinIdle ==
    /\ jcfg = [groups |-> [l |-> <<1, 0>>, r |-> <<1, 0>>],
               emit |-> << <<"l", 1>> >>, outer |-> [l |-> FALSE, r |-> FALSE]]
    /\ jtab = [sd \in Sides |-> [rows |-> << >>, st |-> None]]
    /\ jnet = << >> /\ jwas = None /\ jout = None


(***************************************************************************)
(* Union (ops/union.rs): a union of the parents "a" and "b".               *)
(***************************************************************************)
Parents == {"a", "b"}

\* rec.extract() gives (r, pos, ts); the record rebuilt from the selected columns
Union_project(emit, rec, from) ==
    [sign |-> rec.sign,
     row |-> [i \in 1..Len(emit[from]) |-> rec.row[emit[from][i]]],
     ts |-> rec.ts]

\* a forward that emits a row once however often it arrives
RECURSIVE Union_forward_distinct(_, _, _)
Union_forward_distinct(emit, rs, from) ==
    IF rs = << >> THEN << >>
    ELSE LET rest == Union_forward_distinct(emit, [i \in 1..(Len(rs) - 1) |-> rs[i]], from)
             last == Union_project(emit, rs[Len(rs)], from)
         IN  IF \E i \in 1..Len(rest) : rest[i].row = last.row THEN rest ELSE Append(rest, last)

\* Union::forward: rs.into_iter().map(..).collect()
Union_forward(emit, rs, from) ==
    [k \in 1..Len(rs) |-> Union_project(emit, rs[k], from)]

\* the rows of the parents: a has two columns, b has three
ParentRow ==
    [a |-> {<<1, 1>>, <<1, 2>>}, b |-> {<<1, 2, 1>>, <<1, 1, 2>>}]
ParentRecord(from) == [sign : {"Positive", "Negative"}, row : ParentRow[from], ts : {0, 1}]
ParentBatches(from) == UNION {[1..n -> ParentRecord(from)] : n \in 0..MaxBatch}

UnionEmits ==
    {[a |-> <<1, 2>>, b |-> <<1, 3>>],
     [a |-> <<2, 1>>, b |-> <<3, 2>>]}

\* an update arrives from parent from
UnionForward(from, rs) ==
    /\ uout = None
    /\ uwas' = Some([from |-> from, rs |-> rs])
    /\ uout' = Some(Union_forward(uemit, rs, from))
    /\ UNCHANGED <<uemit, uprev, mvars, rvars, evars, jvars, kvars, hvars, xvars>>

\* the update is handed on; the rows it carried are remembered
UnionDone ==
    /\ uout # None
    /\ uprev' = Some([from |-> unwrap(uwas).from,
                      rows |-> {unwrap(uout)[i].row : i \in 1..Len(unwrap(uout))}])
    /\ uout' = None /\ uwas' = None
    /\ UNCHANGED <<uemit, mvars, rvars, evars, jvars, kvars, hvars, xvars>>

UnionIdle ==
    /\ uemit = [a |-> <<1, 2>>, b |-> <<1, 3>>]
    /\ uprev = None /\ uwas = None /\ uout = None


(***************************************************************************)
(* GroupConkitten (ops/grouped/conkitten.rs): group_concat.                *)
(***************************************************************************)
\* DataType values: an integer or a text
DataType_Int(i) == [t |-> "Int", i |-> i, s |-> ""]
DataType_Text(str) == [t |-> "Text", i |-> 0, s |-> str]

separator == "#"

\* concat_fmt: a text is written as it is, any other value by its Display
concat_fmt(dt) == IF dt.t = "Text" THEN dt.s ELSE ToString(dt.i)

\* LastState::make
LastState_make(num_source_cols) ==
    [string_repr |-> "", data_for_source_cols |-> [i \in 1..num_source_cols |-> << >>]]

KittenDiff(positive, data, group) ==
    [record |-> [sign |-> IF positive THEN "Positive" ELSE "Negative", data |-> data],
     group_by |-> group]

\* iter().rposition(|x| x == &dt): the last position holding dt, 0 for None
RECURSIVE rposition(_, _)
rposition(col_state, dt) ==
    IF col_state = << >> THEN 0
    ELSE IF col_state[Len(col_state)] = dt THEN Len(col_state)
    ELSE rposition([i \in 1..(Len(col_state) - 1) |-> col_state[i]], dt)

\* Vec::remove(pos)
remove_at(col_state, pos) ==
    [i \in 1..(Len(col_state) - 1) |-> IF i < pos THEN col_state[i] ELSE col_state[i + 1]]

\* the inner loop over the data of one diff; acc = [cols, err]
RECURSIVE apply_data(_, _, _, _)
apply_data(acc, data, positive, i) ==
    IF i > Len(data) \/ is_some(acc.err) THEN acc
    ELSE IF i > Len(acc.cols) THEN [acc EXCEPT !.err = Some("Internal")]
    ELSE IF positive
         THEN apply_data([acc EXCEPT !.cols[i] = Append(@, data[i])], data, positive, i + 1)
         ELSE LET item_pos == rposition(acc.cols[i], data[i])
              IN  IF item_pos = 0 THEN [acc EXCEPT !.err = Some("Internal")]
                  ELSE apply_data([acc EXCEPT !.cols[i] = remove_at(@, item_pos)],
                                  data, positive, i + 1)

\* the loop over the diffs
RECURSIVE apply_diffs(_, _, _)
apply_diffs(acc, diffs, group) ==
    IF diffs = << >> \/ is_some(acc.err) THEN acc
    ELSE IF Head(diffs).group_by # group THEN [acc EXCEPT !.err = Some("Internal")]
    ELSE apply_diffs(apply_data(acc, Head(diffs).record.data,
                                Head(diffs).record.sign = "Positive", 1),
                     Tail(diffs), group)

\* the pieces of column i from piece j on, each followed by the separator
\* unless it is the last piece of the last column
RECURSIVE out_pieces(_, _, _)
out_pieces(cols, i, j) ==
    IF i > Len(cols) THEN ""
    ELSE IF j > Len(cols[i]) THEN out_pieces(cols, i + 1, 1)
    ELSE concat_fmt(cols[i][j])
         \o (IF ~(j = Len(cols[i]) /\ i = Len(cols)) THEN separator ELSE "")
         \o out_pieces(cols, i, j + 1)

\* a text with the separator after every piece
out_str_trailing(cols) == out_pieces(Append(cols, << >>), 1, 1)

out_str(cols) == out_pieces(cols, 1, 1)

\* current, if it is a text
current_text(current) ==
    IF is_some(current) /\ unwrap(current).t = "Text" THEN Some(unwrap(current).s) ELSE None

\* an insert that leaves the string of the new state empty
cache_insert_stale(cache, group, ls) ==
    [g \in DOMAIN cache \cup {group} |->
        IF g # group THEN cache[g]
        ELSE [ls EXCEPT !.string_repr = ""]]

cache_remove(cache, group) == [g \in DOMAIN cache \ {group} |-> cache[g]]
cache_insert(cache, group, ls) == [g \in DOMAIN cache \cup {group} |-> IF g = group THEN ls ELSE cache[g]]

\* an apply that starts a new state when the current aggregate does not match
GroupConkitten_apply_rebuilds(num_source_cols, cache, current, diffs) ==
    IF diffs = << >> THEN [result |-> <<"Err", "Internal">>, last_state |-> cache]
    ELSE LET group == Head(diffs).group_by
             ls == IF group \in DOMAIN cache THEN Some(cache[group]) ELSE None
             removed == cache_remove(cache, group)
             text == current_text(current)
             prev_state == IF is_some(text) /\ is_some(ls) /\ unwrap(text) = unwrap(ls).string_repr
                           THEN unwrap(ls) ELSE LastState_make(num_source_cols)
             acc == apply_diffs([cols |-> prev_state.data_for_source_cols, err |-> None],
                                diffs, group)
         IN  IF is_some(acc.err)
             THEN [result |-> <<"Err", unwrap(acc.err)>>, last_state |-> removed]
             ELSE [result |-> <<"Ok", out_str(acc.cols)>>,
                   last_state |-> cache_insert(removed, group,
                        [string_repr |-> out_str(acc.cols), data_for_source_cols |-> acc.cols])]

\* GroupConkitten::apply: returns [result, last_state]
GroupConkitten_apply(num_source_cols, cache, current, diffs) ==
    IF diffs = << >> THEN [result |-> <<"Err", "Internal">>, last_state |-> cache]
    ELSE LET group == Head(diffs).group_by
             ls == IF group \in DOMAIN cache THEN Some(cache[group]) ELSE None
             removed == cache_remove(cache, group)
             text == current_text(current)
         IN  IF is_some(text) /\ ~(is_some(ls) /\ unwrap(text) = unwrap(ls).string_repr)
             THEN [result |-> <<"Err", "GroupedStateLost">>, last_state |-> removed]
             ELSE LET prev_state == IF is_some(text) THEN unwrap(ls)
                                    ELSE LastState_make(num_source_cols)
                      acc == apply_diffs([cols |-> prev_state.data_for_source_cols, err |-> None],
                                         diffs, group)
                  IN  IF is_some(acc.err)
                      THEN [result |-> <<"Err", unwrap(acc.err)>>, last_state |-> removed]
                      ELSE [result |-> <<"Ok", out_str(acc.cols)>>,
                            last_state |-> cache_insert(removed, group,
                                [string_repr |-> out_str(acc.cols),
                                 data_for_source_cols |-> acc.cols])]

WithinSeq(cache) ==
    \A g \in DOMAIN cache :
        \A i \in 1..Len(cache[g].data_for_source_cols) :
            Len(cache[g].data_for_source_cols[i]) <= MaxSeq

\* the grouped operator hands the diffs of one group to apply, with the
\* aggregate the state holds for that group
KittenApply(current, diffs) ==
    LET res == GroupConkitten_apply(source_cols, last_state, current, diffs)
    IN  /\ kout = None
        /\ WithinSeq(res.last_state)
        /\ kwas' = Some([current |-> current, diffs |-> diffs, last_state |-> last_state,
                         results |-> kresults])
        /\ last_state' = res.last_state
        /\ kout' = Some(res.result)
        /\ kresults' = IF diffs = << >> THEN kresults
                       ELSE [g \in DOMAIN kresults \cup {Head(diffs).group_by} |->
                                IF g = Head(diffs).group_by THEN res.result ELSE kresults[g]]
        /\ UNCHANGED <<source_cols, mvars, rvars, evars, jvars, uvars, hvars, xvars>>

\* the grouped operator goes on to its next group
KittenDone ==
    /\ kout # None
    /\ kout' = None /\ kwas' = None
    /\ UNCHANGED <<source_cols, last_state, kresults, mvars, rvars, evars, jvars, uvars, hvars, xvars>>

KittenValues == {DataType_Int(1), DataType_Text("2")}
\* two groups under one aggregated column, one group under two
KittenGroups(n) == IF n = 1 THEN {<<DataType_Int(1)>>, <<DataType_Int(2)>>} ELSE {<<DataType_Int(1)>>}
KittenDiffs(n) ==
    UNION {{ [k \in 1..len |-> KittenDiff(ds[k][1], ds[k][2], g)] :
                ds \in [1..len -> BOOLEAN \X [1..n -> KittenValues]] } :
           g \in KittenGroups(n), len \in 0..MaxBatch}
\* what the state can hold for the group: nothing, a value that is no text,
\* the empty text, or a text the operator has emitted
KittenCurrents ==
    {None, Some(DataType_Int(1)), Some(DataType_Text(""))}
        \cup {Some(DataType_Text(last_state[g].string_repr)) : g \in DOMAIN last_state}

KittenIdle ==
    /\ source_cols = 1 /\ last_state = << >>
    /\ kwas = None /\ kout = None /\ kresults = << >>


(***************************************************************************)
(* A partial state and the state upstream that holds its data.  A write    *)
(* reaches the upstream state and then, over the same ordered channel as   *)
(* the replay pieces, the node; the domain turns every Miss into a replay  *)
(* request and a replay fills the key from the upstream rows.              *)
(***************************************************************************)
HoleIndex == <<1>>
HoleTag == Some(1)

RECURSIVE rows_of(_)
rows_of(set) ==
    IF set = {} THEN << >>
    ELSE LET r == CHOOSE x \in set : TRUE IN <<r>> \o rows_of(set \ {r})

\* the replay piece for key k: the upstream rows under k, as positives
replay_piece(base, k) ==
    LET rows == rows_of({r \in base : IndexKey(r, HoleIndex) = k})
    IN  [j \in 1..Len(rows) |-> [sign |-> "Positive", row |-> rows[j]]]

\* a write is applied upstream and then arrives at the node as a regular record
HoleWrite(rec) ==
    LET res == materialize(<<rec>>, ThisNode, None, Some(hstate))
    IN  /\ hout = None
        /\ IF rec.sign = "Positive" THEN rec.row \notin hbase ELSE rec.row \in hbase
        /\ hbase' = IF rec.sign = "Positive" THEN hbase \cup {rec.row} ELSE hbase \ {rec.row}
        /\ hstate' = unwrap(res.state)
        /\ hreq' = hreq \cup {res.holes[j].key : j \in 1..Len(res.holes)}
        /\ hwas' = Some([rec |-> rec, state |-> hstate])
        /\ hout' = Some([rs |-> res.rs, misses |-> res.holes, ok |-> res.ok])
        /\ UNCHANGED <<hevicted, mvars, rvars, evars, jvars, uvars, kvars, xvars>>

\* the domain takes what the node left of the packet
HoleDone ==
    /\ hout # None
    /\ hout' = None /\ hwas' = None
    /\ UNCHANGED <<hbase, hstate, hreq, hevicted, mvars, rvars, evars, jvars, uvars, kvars, xvars>>

\* the replay for key k arrives: a piece for a key already filled is dropped,
\* else the key is marked filled and the piece materialized under the tag
HoleReplay(k) ==
    LET filled == mark_filled(hstate, 1, k)
        res == materialize(replay_piece(hbase, k), ThisNode, HoleTag, Some(filled))
    IN  /\ hout = None
        /\ k \in hreq
        /\ hreq' = hreq \ {k}
        /\ hstate' = IF k \in DOMAIN hstate.state[1].rows THEN hstate ELSE unwrap(res.state)
        /\ hevicted' = {r \in hevicted : IndexKey(r, HoleIndex) # k}
        /\ UNCHANGED <<hbase, hwas, hout, mvars, rvars, evars, jvars, uvars, kvars, xvars>>

\* eviction turns a filled key back into a hole
HoleEvict(k) ==
    /\ hout = None
    /\ k \in DOMAIN hstate.state[1].rows
    /\ hstate' = mark_hole(hstate, 1, k)
    /\ hevicted' = hevicted \cup {hstate.state[1].rows[k][j] : j \in 1..Len(hstate.state[1].rows[k])}
    /\ UNCHANGED <<hbase, hreq, hwas, hout, mvars, rvars, evars, jvars, uvars, kvars, xvars>>

HoleIdle ==
    /\ hbase = {} /\ hstate = new_state(<<HoleIndex>>, TRUE)
    /\ hreq = {} /\ hevicted = {}
    /\ hwas = None /\ hout = None


(***************************************************************************)
(* TcpSender and TcpReceiver (channel/src/tcp.rs): length-prefixed frames  *)
(* over one connection.                                                    *)
(***************************************************************************)
Byte == 256

\* the four bytes of n, least significant first
write_u32_le(n) ==
    <<n % Byte, (n \div Byte) % Byte, (n \div (Byte * Byte)) % Byte,
      (n \div (Byte * Byte * Byte)) % Byte>>

\* write_u32::<NetworkEndian>: the four bytes of n, most significant first
write_u32_be(n) ==
    <<(n \div (Byte * Byte * Byte)) % Byte, (n \div (Byte * Byte)) % Byte,
      (n \div Byte) % Byte, n % Byte>>

\* the length a reader takes from the four bytes of a frame's head
read_u32_be(b) ==
    ((b[1] * Byte + b[2]) * Byte + b[3]) * Byte + b[4]

\* bincode of a u32: four bytes, least significant first
bincode_serialize(t) ==
    <<t % Byte, (t \div Byte) % Byte, (t \div (Byte * Byte)) % Byte,
      (t \div (Byte * Byte * Byte)) % Byte>>

bincode_serialized_size(t) == Len(bincode_serialize(t))

\* bincode of a u32 read back: None unless the body has four bytes
bincode_deserialize(body) ==
    IF Len(body) = 4
    THEN Some(body[1] + Byte * (body[2] + Byte * (body[3] + Byte * body[4])))
    ELSE None

\* a send_ref that writes the body before its length
TcpSender_send_ref_body_first(sdr, t, io_ok) ==
    IF sdr.poisoned
    THEN [sender |-> sdr, bytes |-> << >>, res |-> <<"Err", "Poisoned">>]
    ELSE LET size == bincode_serialized_size(t)
         IN  IF io_ok
             THEN [sender |-> sdr, bytes |-> bincode_serialize(t) \o write_u32_be(size),
                   res |-> <<"Ok">>]
             ELSE [sender |-> [sdr EXCEPT !.poisoned = TRUE], bytes |-> << >>,
                   res |-> <<"Err", "IoError">>]

\* a send_ref that does not look at the poisoned flag
TcpSender_send_ref_unchecked(sdr, t, io_ok) ==
    IF io_ok
    THEN [sender |-> sdr, bytes |-> write_u32_be(bincode_serialized_size(t)) \o bincode_serialize(t), res |-> <<"Ok">>]
    ELSE [sender |-> [sdr EXCEPT !.poisoned = TRUE], bytes |-> << >>, res |-> <<"Err", "IoError">>]

\* TcpSender::send_ref: [sender, bytes, res], bytes what reaches the connection;
\* io_ok is whether the writes and the flush succeed
TcpSender_send_ref(sdr, t, io_ok) ==
    IF sdr.poisoned
    THEN [sender |-> sdr, bytes |-> << >>, res |-> <<"Err", "Poisoned">>]
    ELSE LET size == bincode_serialized_size(t)
         IN  IF io_ok
             THEN [sender |-> sdr, bytes |-> write_u32_be(size) \o bincode_serialize(t),
                   res |-> <<"Ok">>]
             ELSE [sender |-> [sdr EXCEPT !.poisoned = TRUE], bytes |-> << >>,
                   res |-> <<"Err", "IoError">>]

Min(a, b) == IF a < b THEN a ELSE b

\* DeserializeReceiver::try_recv: reads the four bytes of the length, then the
\* body, keeping what it has read when the stream would block; avail is what
\* the socket holds, eof whether the peer has closed behind it
DeserializeReceiver_try_recv(buffer, avail, eof) ==
    LET h_take == Min(IF Len(buffer) < 4 THEN 4 - Len(buffer) ELSE 0, Len(avail))
        buf1 == buffer \o SubSeq(avail, 1, h_take)
        short(buf, taken) ==
            [res |-> IF eof /\ taken = Len(avail) THEN <<"Err", "IoError">>
                     ELSE <<"Err", "WouldBlock">>,
             buffer |-> buf, taken |-> taken]
    IN  IF Len(buf1) < 4 THEN short(buf1, h_take)
        ELSE LET size == read_u32_be(buf1)
                 b_take == Min(4 + size - Len(buf1), Len(avail) - h_take)
                 buf2 == buf1 \o SubSeq(avail, h_take + 1, h_take + b_take)
                 msg == bincode_deserialize(SubSeq(buf2, 5, Len(buf2)))
             IN  IF Len(buf2) < 4 + size THEN short(buf2, h_take + b_take)
                 ELSE IF is_some(msg)
                      THEN [res |-> <<"Ok", unwrap(msg)>>, buffer |-> << >>,
                            taken |-> h_take + b_take]
                      ELSE [res |-> <<"Err", "DeserializationError">>, buffer |-> << >>,
                            taken |-> h_take + b_take]

\* a try_recv that reports the errors and leaves the flag alone
TcpReceiver_try_recv_unpoisoned(rcv, avail, eof) ==
    IF rcv.poisoned
    THEN [receiver |-> rcv, res |-> <<"Err", "Disconnected">>, taken |-> 0]
    ELSE LET r == DeserializeReceiver_try_recv(rcv.buffer, avail, eof)
             kept == [rcv EXCEPT !.buffer = r.buffer]
         IN  IF r.res[1] = "Ok"
             THEN [receiver |-> kept, res |-> r.res, taken |-> r.taken]
             ELSE IF r.res[2] = "WouldBlock"
             THEN [receiver |-> kept, res |-> <<"Err", "Empty">>, taken |-> r.taken]
             ELSE IF r.res[2] = "IoError"
             THEN [receiver |-> kept, res |-> <<"Err", "Disconnected">>, taken |-> r.taken]
             ELSE [receiver |-> kept, res |-> <<"Err", "DeserializationError">>,
                   taken |-> r.taken]

\* TcpReceiver::try_recv: [receiver, res, taken]
TcpReceiver_try_recv(rcv, avail, eof) ==
    IF rcv.poisoned
    THEN [receiver |-> rcv, res |-> <<"Err", "Disconnected">>, taken |-> 0]
    ELSE LET r == DeserializeReceiver_try_recv(rcv.buffer, avail, eof)
             kept == [rcv EXCEPT !.buffer = r.buffer]
         IN  IF r.res[1] = "Ok"
             THEN [receiver |-> kept, res |-> r.res, taken |-> r.taken]
             ELSE IF r.res[2] = "WouldBlock"
             THEN [receiver |-> kept, res |-> <<"Err", "Empty">>, taken |-> r.taken]
             ELSE IF r.res[2] = "IoError"
             THEN [receiver |-> [kept EXCEPT !.poisoned = TRUE],
                   res |-> <<"Err", "Disconnected">>, taken |-> r.taken]
             ELSE [receiver |-> [kept EXCEPT !.poisoned = TRUE],
                   res |-> <<"Err", "DeserializationError">>, taken |-> r.taken]

TcpBefore(op) ==
    Some([op |-> op, sender |-> sender, receiver |-> receiver, stream |-> stream,
          arrived |-> arrived, received |-> treceived])

\* the sending thread sends t; the write can fail once the receiver is gone
TcpSend(t, io_ok) ==
    LET res == TcpSender_send_ref(sender, t, io_ok)
    IN  /\ sender.alive
        /\ Len(tsent) < MaxMsgs
        /\ IF receiver.alive THEN io_ok ELSE TRUE
        /\ sender' = res.sender
        /\ stream' = stream \o res.bytes
        /\ tsent' = IF res.res = <<"Ok">> THEN Append(tsent, t) ELSE tsent
        /\ twas' = TcpBefore("send")
        /\ tout' = Some(res.res)
        /\ UNCHANGED <<arrived, receiver, treceived, dvars, cvars, pvars, svars>>

\* the network brings the next byte to the receiver's socket
TcpDeliver ==
    /\ arrived < Len(stream)
    /\ arrived' = arrived + 1
    /\ UNCHANGED <<sender, stream, receiver, tsent, treceived, twas, tout, dvars, cvars, pvars, svars>>

\* the receiving thread calls try_recv
TcpTryRecv ==
    LET res == TcpReceiver_try_recv(receiver, SubSeq(stream, 1, arrived),
                                    ~sender.alive /\ arrived = Len(stream))
    IN  /\ receiver.alive
        /\ receiver' = res.receiver
        /\ stream' = SubSeq(stream, res.taken + 1, Len(stream))
        /\ arrived' = arrived - res.taken
        /\ treceived' = IF res.res[1] = "Ok" THEN Append(treceived, res.res[2]) ELSE treceived
        /\ twas' = TcpBefore("try_recv")
        /\ tout' = Some(res.res)
        /\ UNCHANGED <<sender, tsent, dvars, cvars, pvars, svars>>

\* TcpReceiver::recv, one pass of its loop: Empty goes round again
\* (<<"continue">>), every other answer of try_recv is returned
TcpReceiver_recv(rcv, avail, eof) ==
    LET r == TcpReceiver_try_recv(rcv, avail, eof)
    IN  IF r.res = <<"Err", "Empty">>
        THEN [r EXCEPT !.res = <<"continue">>]
        ELSE r

\* the receiving thread is in recv and makes one pass of the loop
TcpRecv ==
    LET res == TcpReceiver_recv(receiver, SubSeq(stream, 1, arrived),
                                ~sender.alive /\ arrived = Len(stream))
    IN  /\ receiver.alive
        /\ receiver' = res.receiver
        /\ stream' = SubSeq(stream, res.taken + 1, Len(stream))
        /\ arrived' = arrived - res.taken
        /\ treceived' = IF res.res[1] = "Ok" THEN Append(treceived, res.res[2]) ELSE treceived
        /\ twas' = TcpBefore("recv")
        /\ tout' = Some(res.res)
        /\ UNCHANGED <<sender, tsent, dvars, cvars, pvars, svars>>

\* a frame whose body is not the bincode of a message: one byte where the
\* message type has four
BadFrame == write_u32_be(1) \o <<7>>

\* the peer writes a frame of another type on the connection (get_mut)
TcpWriteRaw ==
    /\ sender.alive
    /\ ~sender.poisoned
    /\ receiver.alive
    /\ Len(stream) < Len(BadFrame)
    /\ stream' = stream \o BadFrame
    /\ UNCHANGED <<sender, arrived, receiver, tsent, treceived, twas, tout, dvars, cvars, pvars, svars>>

\* the sender is dropped: the connection is closed behind what was written
TcpDropSender ==
    /\ sender.alive
    /\ sender' = [sender EXCEPT !.alive = FALSE]
    /\ UNCHANGED <<stream, arrived, receiver, tsent, treceived, twas, tout, dvars, cvars, pvars, svars>>

\* the receiver is dropped
TcpDropReceiver ==
    /\ receiver.alive
    /\ receiver' = [receiver EXCEPT !.alive = FALSE]
    /\ UNCHANGED <<sender, stream, arrived, tsent, treceived, twas, tout, dvars, cvars, pvars, svars>>

\* the messages of the tests, and one whose body has two bytes that differ
Messages == {12, 65, 300}

\* channel()
TcpIdle ==
    /\ sender = [poisoned |-> FALSE, alive |-> TRUE]
    /\ receiver = [poisoned |-> FALSE, alive |-> TRUE, buffer |-> << >>]
    /\ stream = << >> /\ arrived = 0
    /\ tsent = << >> /\ treceived = << >>
    /\ twas = None /\ tout = None


(***************************************************************************)
(* Consul, as ConsulAuthority uses it: a key/value store with sessions.    *)
(* A key can be locked by one session; a session that is destroyed         *)
(* releases its keys (SESSION_RELEASE_BEHAVIOR), with no lock delay.       *)
(***************************************************************************)
deployment == "deployment"
CONTROLLER_KEY == <<"controller">>
STATE_KEY == <<"state">>
WORKER_PREFIX == <<"workers">>

\* paths are sequences of segments
prefix_with_deployment(path) == <<deployment>> \o path
worker_id_to_path(id) == WORKER_PREFIX \o <<id>>
\* path[(path.rfind('/') + 1)..]
path_to_worker_id(path) == path[Len(path)]

\* serde_json::to_vec / from_slice, and the base64 Consul answers a get with
serde_json_to_vec(x) == [json |-> x]
serde_json_from_slice(bytes) == bytes.json
base64_encode(bytes) == [base64 |-> bytes]
base64_decode(text) == text.base64
Default_Value == [json |-> "empty"]

KVPair(key, value, session) == [Key |-> key, Value |-> value, Session |-> session]

locked_by_other(kv, pair) ==
    IF pair.Key \in DOMAIN kv
    THEN is_some(kv[pair.Key].Session) /\ kv[pair.Key].Session # pair.Session
    ELSE FALSE

kv_write(kv, key, value, session, idx) ==
    [k \in DOMAIN kv \cup {key} |->
        IF k = key
        THEN [Value |-> value, Session |-> session, ModifyIndex |-> idx,
              CreateIndex |-> IF key \in DOMAIN kv THEN kv[key].CreateIndex ELSE idx]
        ELSE kv[k]]

\* consul.acquire: [res, kv, index]; an error for a session that is not live,
\* false when another session holds the key, else the pair is written and
\* the key is held by the pair's session
consul_acquire(kv, idx, live, pair) ==
    IF unwrap(pair.Session) \notin live THEN [res |-> "Err", kv |-> kv, index |-> idx]
    ELSE IF locked_by_other(kv, pair) THEN [res |-> "false", kv |-> kv, index |-> idx]
    ELSE [res |-> "true", index |-> idx + 1,
          kv |-> kv_write(kv, pair.Key, pair.Value, pair.Session, idx + 1)]

\* consul.release: the key is written and unlocked if the pair's session holds it
consul_release(kv, idx, live, pair) ==
    IF unwrap(pair.Session) \notin live THEN [res |-> "Err", kv |-> kv, index |-> idx]
    ELSE IF pair.Key \in DOMAIN kv /\ (IF pair.Key \in DOMAIN kv THEN kv[pair.Key].Session = pair.Session ELSE FALSE)
    THEN [res |-> "true", index |-> idx + 1,
          kv |-> kv_write(kv, pair.Key, pair.Value, None, idx + 1)]
    ELSE [res |-> "false", kv |-> kv, index |-> idx]

\* consul.get: None for a key that is absent, else the pair with its value in base64
consul_get(kv, key) ==
    IF key \in DOMAIN kv
    THEN Some([Key |-> key, Value |-> base64_encode(kv[key].Value), Session |-> kv[key].Session,
               ModifyIndex |-> Some(kv[key].ModifyIndex),
               CreateIndex |-> Some(kv[key].CreateIndex)])
    ELSE None

\* consul::kv::KV::list: the pairs under a prefix
consul_list(kv, prefix) ==
    {unwrap(consul_get(kv, k)) : k \in {x \in DOMAIN kv : SubSeq(x, 1, Len(prefix)) = prefix}}

\* consul.destroy: the session ends and every key it holds is released
consul_destroy(kv, idx, id) ==
    [k \in DOMAIN kv |->
        IF kv[k].Session = Some(id)
        THEN [kv[k] EXCEPT !.Session = None, !.ModifyIndex = idx + 1]
        ELSE kv[k]]

(***************************************************************************)
(* ConsulAuthority (noria/src/consensus/consul.rs)                         *)
(***************************************************************************)
\* ConsulAuthority::new
new_authority ==
    [session |-> None, controller_index |-> None, pc |-> "idle",
     payload |-> None, current_val |-> None]

\* update_controller_index_from_pair
new_index_of(pair) ==
    IF is_some(pair.ModifyIndex) THEN unwrap(pair.ModifyIndex)
    ELSE IF is_some(pair.CreateIndex) THEN unwrap(pair.CreateIndex)
    ELSE 0

\* an is_new_index that takes an index equal to the cached one for new
is_new_index_or_same(current_index, pair) ==
    IF is_some(current_index)
    THEN IF is_some(pair.ModifyIndex) THEN unwrap(pair.ModifyIndex) >= unwrap(current_index)
         ELSE IF is_some(pair.CreateIndex) THEN unwrap(pair.CreateIndex) >= unwrap(current_index)
         ELSE TRUE
    ELSE TRUE

is_new_index(current_index, pair) ==
    IF is_some(current_index)
    THEN IF is_some(pair.ModifyIndex) THEN unwrap(pair.ModifyIndex) > unwrap(current_index)
         ELSE IF is_some(pair.CreateIndex) THEN unwrap(pair.CreateIndex) > unwrap(current_index)
         ELSE TRUE
    ELSE TRUE

\* what a call started from
ConsulSnapshot(a) ==
    [kv |-> consul_kv, live |-> consul_sessions,
     controller_index |-> authority[a].controller_index]

Call(op, arg, before) == [op |-> op, arg |-> arg, before |-> before, res |-> None]

\* no answer waits for its caller
Quiet == \A b \in DOMAIN called : IF called[b] = None THEN TRUE ELSE unwrap(called[b]).res = None
Idle(a) == authority[a].pc = "idle" /\ called[a] = None /\ Quiet
Started(a) == is_some(authority[a].session)

\* init: create_session
AuthorityInit(a) ==
    /\ Idle(a) /\ ~Started(a)
    /\ authority' = [authority EXCEPT ![a].session = Some(a)]
    /\ consul_sessions' = consul_sessions \cup {a}
    /\ UNCHANGED <<consul_kv, consul_index, called, dvars, tvars, pvars, svars>>

\* a become_leader that answers Some(payload) whatever acquire said
become_leader_answer_always(acquired, payload) ==
    IF acquired = "Err" THEN <<"Err">> ELSE <<"Ok", Some(payload)>>

\* a become_leader that answers None whatever acquire said
become_leader_answer_never(acquired, payload) ==
    IF acquired = "Err" THEN <<"Err">> ELSE <<"Ok", None>>

\* the match on what consul.acquire answered
become_leader_answer(acquired, payload) ==
    IF acquired = "true" THEN <<"Ok", Some(payload)>>
    ELSE IF acquired = "false" THEN <<"Ok", None>>
    ELSE <<"Err">>

\* become_leader up to the answer of consul.acquire
BecomeLeaderAcquire(a, payload) ==
    LET key == prefix_with_deployment(CONTROLLER_KEY)
        pair == KVPair(key, serde_json_to_vec(payload), authority[a].session)
        r == consul_acquire(consul_kv, consul_index, consul_sessions, pair)
        call == Call("become_leader", payload, ConsulSnapshot(a))
    IN  /\ Idle(a) /\ Started(a)
        /\ consul_index < MaxIndex
        /\ consul_kv' = r.kv /\ consul_index' = r.index
        /\ IF r.res = "true"
           THEN /\ authority' = [authority EXCEPT ![a].pc = "become_leader_get",
                                                  ![a].payload = Some(payload)]
                /\ called' = [called EXCEPT ![a] = Some(call)]
           ELSE /\ authority' = authority
                /\ called' = [called EXCEPT ![a] = Some(
                        [call EXCEPT !.res = Some(become_leader_answer(r.res, payload))])]
        /\ UNCHANGED <<consul_sessions, dvars, tvars, pvars, svars>>

\* become_leader from the get that updates the authority's index to its return
BecomeLeaderGet(a) ==
    LET key == prefix_with_deployment(CONTROLLER_KEY)
        got == consul_get(consul_kv, key)
        idx == IF is_some(got) /\ (IF is_some(got) THEN unwrap(got).Session = authority[a].session ELSE FALSE)
               THEN Some(new_index_of(unwrap(got)))
               ELSE authority[a].controller_index
    IN  /\ authority[a].pc = "become_leader_get" /\ Quiet
        /\ authority' = [authority EXCEPT ![a].pc = "idle", ![a].payload = None,
                                          ![a].controller_index = idx]
        /\ called' = [called EXCEPT ![a] = Some(
                [unwrap(@) EXCEPT !.res = Some(become_leader_answer("true", unwrap(authority[a].payload)))])]
        /\ UNCHANGED <<consul_kv, consul_index, consul_sessions, dvars, tvars, pvars, svars>>

\* surrender_leadership
SurrenderLeadership(a) ==
    LET pair == KVPair(prefix_with_deployment(CONTROLLER_KEY), Default_Value, authority[a].session)
        r == consul_release(consul_kv, consul_index, consul_sessions, pair)
    IN  /\ Idle(a) /\ Started(a)
        /\ consul_index < MaxIndex
        /\ consul_kv' = r.kv /\ consul_index' = r.index
        /\ called' = [called EXCEPT ![a] = Some(
                [Call("surrender_leadership", None, ConsulSnapshot(a)) EXCEPT
                    !.res = Some(IF r.res = "Err" THEN <<"Err">> ELSE <<"Ok">>)])]
        /\ UNCHANGED <<consul_sessions, authority, dvars, tvars, pvars, svars>>

\* get_leader: loops until a session holds the controller key
GetLeader(a) ==
    LET got == consul_get(consul_kv, prefix_with_deployment(CONTROLLER_KEY))
    IN  /\ Idle(a)
        /\ is_some(got)
        /\ is_some(unwrap(got).Session)
        /\ called' = [called EXCEPT ![a] = Some(
                [Call("get_leader", None, ConsulSnapshot(a)) EXCEPT
                    !.res = Some(<<"Ok", serde_json_from_slice(base64_decode(unwrap(got).Value))>>)])]
        /\ UNCHANGED <<consul_kv, consul_index, consul_sessions, authority, dvars, tvars, pvars, svars>>

\* try_get_leader, from the cached index and what the get of the controller
\* key answered: [res, controller_index]
try_get_leader(current_index, got) ==
    IF is_some(got) /\ (IF is_some(got) THEN is_new_index(current_index, unwrap(got)) ELSE FALSE)
    THEN IF unwrap(got).Session = None
         THEN [res |-> <<"NoLeader">>, controller_index |-> current_index]
         ELSE [res |-> <<"NewLeader", serde_json_from_slice(base64_decode(unwrap(got).Value))>>,
               controller_index |-> Some(new_index_of(unwrap(got)))]
    ELSE IF is_some(got) THEN [res |-> <<"Unchanged">>, controller_index |-> current_index]
    ELSE [res |-> <<"NoLeader">>, controller_index |-> current_index]

TryGetLeader(a) ==
    LET r == try_get_leader(authority[a].controller_index,
                            consul_get(consul_kv, prefix_with_deployment(CONTROLLER_KEY)))
    IN  /\ Idle(a)
        /\ authority' = [authority EXCEPT ![a].controller_index = r.controller_index]
        /\ called' = [called EXCEPT ![a] = Some(
                [Call("try_get_leader", None, ConsulSnapshot(a)) EXCEPT
                    !.res = Some(<<"Ok", r.res>>)])]
        /\ UNCHANGED <<consul_kv, consul_index, consul_sessions, dvars, tvars, pvars, svars>>

\* the closure of tests::only_leader_can_update_state
f_next(current_val) == IF is_some(current_val) THEN unwrap(current_val) + 1 ELSE 0

\* the check of update_controller_state: bail if the get answers a pair that
\* another session, or none, holds
not_leader(got, my_session) ==
    IF is_some(got) THEN unwrap(got).Session # my_session ELSE FALSE

\* update_controller_state up to the check of the controller key
UpdateStateCheck(a) ==
    LET got == consul_get(consul_kv, prefix_with_deployment(CONTROLLER_KEY))
        call == Call("update_controller_state", None, ConsulSnapshot(a))
    IN  /\ Idle(a) /\ Started(a)
        /\ IF not_leader(got, authority[a].session)
           THEN /\ authority' = authority
                /\ called' = [called EXCEPT ![a] = Some(
                        [call EXCEPT !.res = Some(<<"Err">>)])]
           ELSE /\ authority' = [authority EXCEPT ![a].pc = "update_state_read"]
                /\ called' = [called EXCEPT ![a] = Some(call)]
        /\ UNCHANGED <<consul_kv, consul_index, consul_sessions, dvars, tvars, pvars, svars>>

\* the try_read of the state key at the head of the loop
UpdateStateRead(a) ==
    LET got == consul_get(consul_kv, prefix_with_deployment(STATE_KEY))
        current_val == IF is_some(got)
                       THEN Some(serde_json_from_slice(base64_decode(unwrap(got).Value)))
                       ELSE None
    IN  /\ authority[a].pc = "update_state_read" /\ Quiet
        /\ authority' = [authority EXCEPT ![a].pc = "update_state_acquire",
                                          ![a].current_val = current_val]
        /\ UNCHANGED <<consul_kv, consul_index, consul_sessions, called, dvars, tvars, pvars, svars>>

\* the acquire of the state key: return on true, again on false, bail on an error
UpdateStateAcquire(a) ==
    LET value == f_next(authority[a].current_val)
        pair == KVPair(prefix_with_deployment(STATE_KEY), serde_json_to_vec(value),
                       authority[a].session)
        r == consul_acquire(consul_kv, consul_index, consul_sessions, pair)
    IN  /\ authority[a].pc = "update_state_acquire" /\ Quiet
        /\ consul_index < MaxIndex
        /\ consul_kv' = r.kv /\ consul_index' = r.index
        /\ IF r.res = "false"
           THEN /\ authority' = [authority EXCEPT ![a].pc = "update_state_read",
                                                  ![a].current_val = None]
                /\ called' = called
           ELSE /\ authority' = [authority EXCEPT ![a].pc = "idle", ![a].current_val = None]
                /\ called' = [called EXCEPT ![a] = Some(
                        [unwrap(@) EXCEPT
                            !.res = Some(IF r.res = "true" THEN <<"Ok", value>> ELSE <<"Err">>)])]
        /\ UNCHANGED <<consul_sessions, dvars, tvars, pvars, svars>>

\* consul.put with neither cas nor acquire: the value is written whoever
\* holds the key, and the answer is true
consul_put(kv, idx, pair) ==
    [res |-> "true", index |-> idx + 1,
     kv |-> kv_write(kv, pair.Key, pair.Value,
                     IF pair.Key \in DOMAIN kv THEN kv[pair.Key].Session ELSE None, idx + 1)]

\* try_read: the value under the path, None when the key is absent
try_read(kv, path) ==
    LET got == consul_get(kv, prefix_with_deployment(path))
    IN  IF is_some(got)
        THEN Some(serde_json_from_slice(base64_decode(unwrap(got).Value)))
        ELSE None

\* the closures handed to read_modify_write: closure k makes 2 * v + k of the
\* value v it is given (of 0 for None), so that the value stored tells which
\* closures were applied and in which order
f_closure(k, current_val) ==
    2 * (IF is_some(current_val) THEN unwrap(current_val) ELSE 0) + k

\* read_modify_write up to the answer of try_read
ReadModifyWriteRead(a, path, k) ==
    /\ authority[a].pc = "idle" /\ called[a] = None /\ Started(a)
    /\ authority' = [authority EXCEPT ![a].pc = "rmw_put",
                                      ![a].current_val = try_read(consul_kv, path)]
    /\ called' = [called EXCEPT ![a] = Some(
            Call("read_modify_write", [path |-> path, f |-> k], ConsulSnapshot(a)))]
    /\ UNCHANGED <<consul_kv, consul_index, consul_sessions, dvars, tvars, pvars, svars>>

\* the closure and the put: return on true, bail on an error
ReadModifyWritePut(a, put_ok) ==
    LET call == unwrap(called[a])
        r == f_closure(call.arg.f, authority[a].current_val)
        pair == KVPair(prefix_with_deployment(call.arg.path), serde_json_to_vec(r), None)
        put == consul_put(consul_kv, consul_index, pair)
    IN  /\ authority[a].pc = "rmw_put"
        /\ consul_index < MaxIndex
        /\ authority' = [authority EXCEPT ![a].pc = "idle", ![a].current_val = None]
        /\ IF put_ok
           THEN /\ consul_kv' = put.kv /\ consul_index' = put.index
                /\ called' = [called EXCEPT ![a] = Some([call EXCEPT !.res = Some(<<"Ok", r>>)])]
           ELSE /\ consul_kv' = consul_kv /\ consul_index' = consul_index
                /\ called' = [called EXCEPT ![a] = Some([call EXCEPT !.res = Some(<<"Err">>)])]
        /\ UNCHANGED <<consul_sessions, dvars, tvars, pvars, svars>>

RmwPaths == {<<"a">>, <<"b">>}
RmwClosures == {1, 2}

\* register_worker
RegisterWorker(a) ==
    LET session == unwrap(authority[a].session)
        pair == KVPair(prefix_with_deployment(worker_id_to_path(session)),
                       serde_json_to_vec("worker"), Some(session))
        r == consul_acquire(consul_kv, consul_index, consul_sessions, pair)
    IN  /\ Idle(a) /\ Started(a)
        /\ consul_index < MaxIndex
        /\ consul_kv' = r.kv /\ consul_index' = r.index
        /\ called' = [called EXCEPT ![a] = Some(
                [Call("register_worker", None, ConsulSnapshot(a)) EXCEPT
                    !.res = Some(IF r.res = "Err" THEN <<"Err">> ELSE <<"Ok", Some(session)>>)])]
        /\ UNCHANGED <<consul_sessions, authority, dvars, tvars, pvars, svars>>

\* a get_workers that lists every pair under WORKER_PREFIX
get_workers_unfiltered(kv) ==
    {path_to_worker_id(pair.Key) : pair \in consul_list(kv, prefix_with_deployment(WORKER_PREFIX))}

\* get_workers: the ids of the pairs under WORKER_PREFIX that a session holds
get_workers(kv) ==
    {path_to_worker_id(pair.Key) :
        pair \in {c \in consul_list(kv, prefix_with_deployment(WORKER_PREFIX)) : is_some(c.Session)}}

GetWorkers(a) ==
    /\ Idle(a)
    /\ called' = [called EXCEPT ![a] = Some(
            [Call("get_workers", None, ConsulSnapshot(a)) EXCEPT
                !.res = Some(<<"Ok", get_workers(consul_kv)>>)])]
    /\ UNCHANGED <<consul_kv, consul_index, consul_sessions, authority, dvars, tvars, pvars, svars>>

\* destroy_session, or the session's TTL running out
DestroySession(a) ==
    /\ a \in consul_sessions /\ Quiet
    /\ consul_index < MaxIndex
    /\ consul_sessions' = consul_sessions \ {a}
    /\ consul_kv' = consul_destroy(consul_kv, consul_index, a)
    /\ consul_index' = consul_index + 1
    /\ UNCHANGED <<authority, called, dvars, tvars, pvars, svars>>

\* the caller takes the answer
AuthorityReturn(a) ==
    /\ authority[a].pc = "idle" /\ called[a] # None
    /\ called' = [called EXCEPT ![a] = None]
    /\ UNCHANGED <<consul_kv, consul_index, consul_sessions, authority, dvars, tvars, pvars, svars>>

Authorities == {"a1", "a2"}
\* LeaderPayload, told apart by its nonce: every authority has its own
LeaderPayloads(a) == IF a = "a1" THEN {1} ELSE {2}

\* delete_all_keys, no authority started
ConsulIdle ==
    /\ consul_kv = << >> /\ consul_index = 0 /\ consul_sessions = {}
    /\ authority = [a \in Authorities |-> new_authority]
    /\ called = [a \in Authorities |-> None]



(***************************************************************************)
(* Keys / provenance (noria/server/src/controller/keys.rs)                 *)
(***************************************************************************)
\* column numbers count from 0, as in the source; sequences from 1
node_Source == [kind |-> "Source", parents |-> <<>>, fields |-> 1,
                emit |-> <<>>, literals |-> 0, groups |-> <<>>]
node_Base == [kind |-> "Base", parents |-> <<"source">>, fields |-> 2,
              emit |-> <<>>, literals |-> 0, groups |-> <<>>]
node_Ingress(src, fields) ==
    [kind |-> "Ingress", parents |-> <<src>>, fields |-> fields,
     emit |-> <<>>, literals |-> 0, groups |-> <<>>]
\* Project::new(src, emit, additional): the columns of src it emits, then its literals
Project_new(src, emit, literals) ==
    [kind |-> "Project", parents |-> <<src>>, fields |-> Len(emit) + literals,
     emit |-> emit, literals |-> literals, groups |-> <<>>]
\* Union::new(emit): per parent, the columns of the parent it emits
Union_new(parents, emit) ==
    [kind |-> "Union", parents |-> parents, fields |-> Len(emit[parents[1]]),
     emit |-> emit, literals |-> 0, groups |-> <<>>]
\* Builder::new(emit).from(l, groups.l).join(r, groups.r): per output column the
\* parent and the column it comes from, per parent the group of each column
Joiner_from(parents, emit, groups) ==
    [kind |-> "Joiner", parents |-> parents, fields |-> Len(emit),
     emit |-> emit, literals |-> 0, groups |-> groups]

\* tests::bases
bases == [nd \in {"source", "a", "b"} |-> IF nd = "source" THEN node_Source ELSE node_Base]

Node_is_base(n) == n.kind = "Base"
Node_is_internal(n) == n.kind \in {"Project", "Union", "Joiner"}
Node_is_join(n) == n.kind = "Joiner"

\* Joiner::resolve
Joiner_resolve(j, col) == Some(<<j.emit[col + 1]>>)

\* a Union::resolve that answers with one parent only
Union_resolve_one(u, col) ==
    {<<src, u.emit[src][col + 1]>> : src \in {u.parents[1]}}

\* Union::resolve: the entries come in the order of a HashMap, a set here
Union_resolve(u, col) ==
    {<<src, u.emit[src][col + 1]>> : src \in DOMAIN u.emit}

\* Project::resolve: None for a literal
Project_resolve(pr, col) ==
    IF col < Len(pr.emit) THEN Some(<< <<pr.parents[1], pr.emit[col + 1]>> >>) ELSE None

\* Node::parent_columns: what resolve answers, or the node itself with no
\* column for a column it generates
Node_parent_columns(g, nd, col) ==
    LET n == g[nd]
        origins == IF n.kind = "Project" THEN Project_resolve(n, col)
                   ELSE IF n.kind = "Joiner" THEN Joiner_resolve(n, col)
                   ELSE None
    IN  IF n.kind = "Union" THEN {<<o[1], Some(o[2])>> : o \in Union_resolve(n, col)}
        ELSE IF is_some(origins)
             THEN {<<o[1], Some(o[2])>> : o \in Range(unwrap(origins))}
             ELSE {<<nd, None>>}

\* a vec![None; cols] that holds column 0 in every position
idk_first_column(cols) == [i \in 1..cols |-> Some(0)]

\* vec![None; cols]
idk(cols) == [i \in 1..cols |-> None]

\* the fold of trace: per ancestor, the column each selected column comes from
resolved_by_ancestor(g, nd, columns) ==
    LET cols == Len(columns)
        origins(i) == IF is_some(columns[i])
                      THEN Node_parent_columns(g, nd, unwrap(columns[i]))
                      ELSE {}
        ancestors == UNION {{o[1] : o \in origins(i)} : i \in 1..cols}
    IN  [ancestor \in ancestors |->
            [i \in 1..cols |->
                IF \E o \in origins(i) : o[1] = ancestor
                THEN (CHOOSE o \in origins(i) : o[1] = ancestor)[2]
                ELSE idk(cols)[i]]]

\* resolved.remove(&p).unwrap_or_else(|| vec![None; cols])
remove_or_idk(rs, p, cols) == IF p \in DOMAIN rs THEN rs[p] ELSE idk(cols)

\* the closure given to provenance_of: None, or the parent it picks
on_join(choice, parents) == IF choice = 0 THEN None ELSE Some(parents[choice])

\* what a trace that panics leaves
Panicked == {<< <<"panic", <<>> >> >>}

RECURSIVE trace(_, _, _)
\* trace: the paths, a set as the order of the parents is not specified
trace(g, choice, path) ==
    LET nd == path[Len(path)][1]
        columns == path[Len(path)][2]
        cols == Len(columns)
        parents == g[nd].parents
        n == g[nd]
        push(p, cs) == Append(path, <<p, cs>>)
    IN  IF parents = <<>> THEN Panicked
        ELSE IF Node_is_base(n) THEN {path}
        ELSE IF ~Node_is_internal(n) THEN trace(g, choice, push(parents[1], columns))
        ELSE IF \A i \in 1..cols : columns[i] = None
        THEN IF Node_is_join(n) /\ is_some(on_join(choice, parents))
             THEN trace(g, choice, push(unwrap(on_join(choice, parents)), idk(cols)))
             ELSE UNION {trace(g, choice, push(p, idk(cols))) : p \in Range(parents)}
        ELSE LET rs == resolved_by_ancestor(g, nd, columns)
             IN  IF nd \in DOMAIN rs
                 THEN IF (\E i \in 1..cols : rs[nd][i] # None) \/ Len(parents) # 1
                      THEN Panicked
                      ELSE UNION {trace(g, choice, push(p, remove_or_idk(rs, p, cols))) :
                                    p \in Range(parents)}
                 ELSE IF Len(parents) = 1
                 THEN IF parents[1] \in DOMAIN rs
                      THEN trace(g, choice, push(parents[1], rs[parents[1]]))
                      ELSE Panicked
                 ELSE IF ~Node_is_join(n)
                 THEN IF Len(parents) # Cardinality(DOMAIN rs)
                      THEN Panicked
                      ELSE UNION {trace(g, choice, push(p, rs[p])) : p \in DOMAIN rs}
                 ELSE IF on_join(choice, parents) = None
                 THEN UNION {trace(g, choice, push(p, remove_or_idk(rs, p, cols))) :
                                p \in Range(parents)}
                 ELSE LET parent == unwrap(on_join(choice, parents))
                      IN  trace(g, choice, push(parent, remove_or_idk(rs, parent, cols)))

provenance_of(g, nd, columns, choice) ==
    trace(g, choice, << <<nd, [i \in 1..Len(columns) |-> Some(columns[i])]>> >>)

\* the columns a test may ask about at a node of so many fields
Columns(fields) == UNION {[1..k -> 0..(fields - 1)] : k \in 1..MaxKey}

\* the nodes the tests add on the bases: an ingress, a projection that reorders
\* or adds a literal, a union, a join of a.1 with b.0
NodesOnBases ==
    {node_Ingress(b, 2) : b \in {"a", "b"}} \cup
    {Project_new(b, emit, lit) :
        b \in {"a", "b"}, emit \in {<<0>>, <<1>>, <<0, 1>>, <<1, 0>>}, lit \in {0, 1}} \cup
    {Union_new(<<"a", "b">>, [a |-> ea, b |-> eb]) :
        ea \in {<<0, 1>>, <<1, 0>>}, eb \in {<<0, 1>>, <<1, 0>>}} \cup
    {Joiner_from(<<"a", "b">>, emit, [a |-> <<0, 1>>, b |-> <<1, 0>>]) :
        emit \in {<< <<"a", 0>>, <<"a", 1>>, <<"b", 1>> >>,
                  << <<"a", 0>>, <<"b", 0>>, <<"b", 1>> >>}}

\* the nodes added on top of x
NodesOn(x, fields) ==
    {node_Ingress(x, fields)} \cup
    {Project_new(x, emit, lit) :
        emit \in UNION {[1..k -> 0..(fields - 1)] : k \in 1..2}, lit \in {0, 1}}

\* a migration adds x on the bases
AddX(n) ==
    /\ "x" \notin DOMAIN graph
    /\ graph' = [nd \in DOMAIN graph \cup {"x"} |-> IF nd = "x" THEN n ELSE graph[nd]]
    /\ traced' = None
    /\ UNCHANGED <<dvars, tvars, cvars, svars>>

\* a migration adds y on x
AddY(n) ==
    /\ "x" \in DOMAIN graph /\ "y" \notin DOMAIN graph
    /\ graph' = [nd \in DOMAIN graph \cup {"y"} |-> IF nd = "y" THEN n ELSE graph[nd]]
    /\ traced' = None
    /\ UNCHANGED <<dvars, tvars, cvars, svars>>

ProvenanceOf(nd, columns, choice) ==
    /\ nd \in DOMAIN graph /\ nd # "source"
    /\ columns \in Columns(graph[nd].fields)
    /\ traced' = Some([node |-> nd, columns |-> columns, on_join |-> choice,
                       paths |-> provenance_of(graph, nd, columns, choice)])
    /\ UNCHANGED <<graph, dvars, tvars, cvars, svars>>

\* the closures a test may give: one that is never called is one closure
OnJoinChoices(g) == IF \E nd \in DOMAIN g : Node_is_join(g[nd]) THEN 0..2 ELSE {0}

KeysIdle == graph = bases /\ traced = None


(***************************************************************************)
(* NodeDescriptor::process for Ingress and Internal nodes, and its         *)
(* materialize (flow/domain/single.rs)                                     *)
(***************************************************************************)
\* a materialize that checks and applies record by record, up to the first hole
single_materialize_as_it_goes(rs, st) ==
    IF st = None
    THEN [res |-> <<"Ok">>, state |-> None, ok |-> TRUE]
    ELSE LET acc0 == [state |-> unwrap(st), rs |-> <<>>, holes |-> <<>>, ok |-> TRUE]
             acc == IF is_partial(unwrap(st))
                    THEN retain_until_miss(rs, acc0, ThisNode, None)
                    ELSE apply_all(rs, acc0, None)
         IN  [res |-> IF acc.holes = <<>> THEN <<"Ok">> ELSE <<"Err", acc.holes[1].key[1]>>,
              state |-> Some(acc.state), ok |-> acc.ok]

\* materialize: [res, state, ok], res Ok, Err(key) or the unimplemented!() of a
\* hole under an index of several columns; ok: every remove found its row
single_materialize(rs, st) ==
    IF st = None
    THEN [res |-> <<"Ok">>, state |-> None, ok |-> TRUE]
    ELSE LET s == unwrap(st)
             missing == {j \in 1..Len(rs) : is_some(hits_hole(s, rs[j].row))}
         IN  IF is_partial(s) /\ missing # {}
             THEN LET j == CHOOSE x \in missing : \A y \in missing : x <= y
                      cols == unwrap(hits_hole(s, rs[j].row))
                  IN  IF Len(cols) # 1
                      THEN [res |-> <<"unimplemented">>, state |-> st, ok |-> TRUE]
                      ELSE [res |-> <<"Err", rs[j].row[cols[1]]>>, state |-> st, ok |-> TRUE]
             ELSE LET acc == apply_all(rs, [state |-> s, rs |-> <<>>, holes |-> <<>>,
                                            ok |-> TRUE], None)
                  IN  [res |-> <<"Ok">>, state |-> Some(acc.state), ok |-> acc.ok]

Done(mm) == [kind |-> "Done", m |-> mm]
NeedReplay(n, key, was_m) == [kind |-> "NeedReplay", node |-> n, key |-> key, was |-> was_m]

\* the kernels of the explored Internal nodes: one that passes the records
\* through, one that swaps the two columns, one that looks up a parent and
\* misses on the first record
swap_columns(data) == [j \in 1..Len(data) |-> [data[j] EXCEPT !.row = <<@[2], @[1]>>]]
Ingredient_on_input(kernel, data) ==
    IF kernel = "swap" THEN Done(swap_columns(data))
    ELSE IF kernel = "lookup" /\ data # <<>>
         THEN NeedReplay("parent", <<data[1].row[1]>>, data)
         ELSE Done(data)

\* returns [result, state, ok]
NodeDescriptor_process(nd, mm, st) ==
    IF nd.inner = "Ingress"
    THEN LET mat == single_materialize(mm.data, st)
         IN  [result |-> IF mat.res[1] = "Err" THEN NeedReplay(ThisNode, <<mat.res[2]>>, mm)
                         ELSE IF mat.res[1] = "Ok" THEN Done(mm)
                         ELSE [kind |-> "panic"],
              state |-> mat.state, ok |-> mat.ok]
    ELSE LET data_clone == IF st = None THEN None
                           ELSE IF is_partial(unwrap(st)) THEN Some(mm.data) ELSE None
             out == Ingredient_on_input(nd.kernel, mm.data)
         IN  IF out.kind = "NeedReplay"
             THEN [result |-> NeedReplay(out.node, out.key, [mm EXCEPT !.data = out.was]),
                   state |-> st, ok |-> TRUE]
             ELSE LET m1 == [mm EXCEPT !.data = out.m]
                      mat == single_materialize(m1.data, st)
                  IN  [result |-> IF mat.res[1] = "Err"
                                  THEN NeedReplay(ThisNode, <<mat.res[2]>>,
                                                  [m1 EXCEPT !.data = unwrap(data_clone)])
                                  ELSE IF mat.res[1] = "Ok" THEN Done(m1)
                                  ELSE [kind |-> "panic"],
                       state |-> mat.state, ok |-> mat.ok]

\* the domain hands packet mm to the node
SingleProcess(mm) ==
    LET res == NodeDescriptor_process(snode, mm, sstate)
    IN  /\ sresult = None
        /\ res.ok
        /\ WithinRows(res.state)
        /\ swas' = Some([m |-> mm, state |-> sstate])
        /\ sresult' = Some(res.result)
        /\ sstate' = res.state
        /\ UNCHANGED <<snode, dvars, tvars, cvars, pvars>>

\* the domain takes the result from the node
SingleDone ==
    /\ sresult # None
    /\ sresult' = None /\ swas' = None
    /\ UNCHANGED <<snode, sstate, dvars, tvars, cvars, pvars>>

\* the domain's replay handling fills a key of a partial state
SingleFill(i, k) ==
    /\ sresult = None
    /\ sstate # None
    /\ IF sstate = None THEN FALSE ELSE is_partial(unwrap(sstate))
    /\ i \in 1..Len(unwrap(sstate).state)
    /\ k \in KeysOf(unwrap(sstate).state[i].key) \ DOMAIN unwrap(sstate).state[i].rows
    /\ sstate' = Some(mark_filled(unwrap(sstate), i, k))
    /\ UNCHANGED <<snode, sresult, swas, dvars, tvars, cvars, pvars>>

\* eviction turns a filled key of a partial state back into a hole
SingleEvict(i, k) ==
    /\ sresult = None
    /\ sstate # None
    /\ IF sstate = None THEN FALSE ELSE is_partial(unwrap(sstate))
    /\ i \in 1..Len(unwrap(sstate).state)
    /\ k \in DOMAIN unwrap(sstate).state[i].rows
    /\ sstate' = Some(mark_hole(unwrap(sstate), i, k))
    /\ UNCHANGED <<snode, sresult, swas, dvars, tvars, cvars, pvars>>

SingleConfigs ==
    {[snode |-> [inner |-> "Ingress", kernel |-> "identity"], sstate |-> st] :
        st \in {None, Some(new_state(<< <<1>>, <<2>> >>, TRUE)),
                Some(new_state(<< <<1>> >>, FALSE))}} \cup
    {[snode |-> [inner |-> "Internal", kernel |-> k], sstate |-> st] :
        k \in {"identity", "swap", "lookup"},
        st \in {None, Some(new_state(<< <<1>> >>, TRUE)),
                Some(new_state(<< <<1>> >>, FALSE))}}

SingleIdle ==
    /\ snode = [inner |-> "Ingress", kernel |-> "identity"] /\ sstate = None
    /\ sresult = None /\ swas = None

MatConfigs ==
    {[node |-> [inner |-> "Ingress", base |-> FALSE], state |-> None]} \cup
    {[node |-> [inner |-> "Ingress", base |-> FALSE],
      state |-> Some(new_state(<< <<1>>, <<2>> >>, TRUE))]} \cup
    {[node |-> [inner |-> "Internal", base |-> FALSE],
      state |-> Some(new_state(<< <<1>> >>, TRUE))]} \cup
    {[node |-> [inner |-> "Internal", base |-> TRUE],
      state |-> Some(new_state(<< <<1>> >>, FALSE))]}

MatIdle ==
    /\ node = [inner |-> "Ingress", base |-> FALSE] /\ state = None
    /\ m = None /\ misses = <<>> /\ was = None

MatInit ==
    /\ \E c \in MatConfigs : node = c.node /\ state = c.state
    /\ m = None /\ misses = <<>> /\ was = None
    /\ ReaderIdle
    /\ EgressIdle
    /\ JoinIdle
    /\ UnionIdle
    /\ KittenIdle
    /\ HoleIdle
    /\ TcpIdle
    /\ ConsulIdle
    /\ KeysIdle
    /\ SingleIdle

MatNext ==
    \/ \E p \in Packets : Process(p)
    \/ Forward
    \/ \E i \in 1..2, k \in UNION {KeysOf(ix) : ix \in {<<1>>, <<2>>}} : MarkFilled(i, k)
    \/ \E i \in 1..2, k \in UNION {KeysOf(ix) : ix \in {<<1>>, <<2>>}} : MarkHole(i, k)

SpecMaterialize == MatInit /\ [][MatNext]_vars

ReaderInit ==
    /\ \E c \in ReaderConfigs : reader = c.reader /\ streamers = c.streamers
    /\ backlog = new_backlog /\ replayed = {}
    /\ alive = [l \in Listeners |-> TRUE]
    /\ rwas = None /\ rout = None
    /\ MatIdle
    /\ EgressIdle
    /\ JoinIdle
    /\ UnionIdle
    /\ KittenIdle
    /\ HoleIdle
    /\ TcpIdle
    /\ ConsulIdle
    /\ KeysIdle
    /\ SingleIdle

ReaderNext ==
    \/ \E p \in ReaderPackets, do_swap \in BOOLEAN : ReaderProcess(p, do_swap)
    \/ ReaderDone
    \/ \E l \in Listeners : HangUp(l)

SpecReader == ReaderInit /\ [][ReaderNext]_vars

EgressInit ==
    /\ txs = << >> /\ tags = << >> /\ up = [g \in GlobalAddr |-> TRUE]
    /\ debug \in BOOLEAN
    /\ ewas = None /\ eout = None
    /\ MatIdle
    /\ ReaderIdle
    /\ JoinIdle
    /\ UnionIdle
    /\ KittenIdle
    /\ HoleIdle
    /\ TcpIdle
    /\ ConsulIdle
    /\ KeysIdle
    /\ SingleIdle

EgressNext ==
    \/ \E p \in EgressPackets : EgressProcess(p)
    \/ EgressDone
    \/ \E g \in GlobalAddr : AddTx(g)
    \/ \E t \in Tags, g \in GlobalAddr : AddTag(t, g)
    \/ \E g \in GlobalAddr : CloseChannel(g)

SpecEgress == EgressInit /\ [][EgressNext]_vars

JoinInit ==
    /\ \E c \in JoinConfigs, mz \in Materializations :
         /\ (mz = "partial" => c.groups = [l |-> <<1, 0>>, r |-> <<1, 0>>])
         /\ (mz = "none" => c.groups = [l |-> <<1, 0>>, r |-> <<1, 0>>] /\ ~c.outer["r"])
         /\ jcfg = c
         /\ jtab = [sd \in Sides |-> [rows |-> << >>, st |-> parent_state(c, sd, mz)]]
    /\ jnet = << >> /\ jwas = None /\ jout = None
    /\ MatIdle
    /\ ReaderIdle
    /\ EgressIdle
    /\ UnionIdle
    /\ KittenIdle
    /\ HoleIdle
    /\ TcpIdle
    /\ ConsulIdle
    /\ KeysIdle
    /\ SingleIdle

JoinNext ==
    \/ \E sd \in Sides, rec \in Record : JoinWrite(sd, rec)
    \/ JoinDone
    \/ \E sd \in Sides, k \in KeysOf(<<1>>) : JoinFill(sd, k)
    \/ \E sd \in Sides, k \in KeysOf(<<1>>) : JoinEvict(sd, k)

SpecJoin == JoinInit /\ [][JoinNext]_vars

UnionInit ==
    /\ uemit \in UnionEmits
    /\ uprev = None /\ uwas = None /\ uout = None
    /\ MatIdle
    /\ ReaderIdle
    /\ EgressIdle
    /\ JoinIdle
    /\ KittenIdle
    /\ HoleIdle
    /\ TcpIdle
    /\ ConsulIdle
    /\ KeysIdle
    /\ SingleIdle

UnionNext ==
    \/ \E from \in Parents : \E rs \in ParentBatches(from) : UnionForward(from, rs)
    \/ UnionDone

SpecUnion == UnionInit /\ [][UnionNext]_vars

KittenInit ==
    /\ source_cols \in {1, 2}
    /\ last_state = << >>
    /\ kwas = None /\ kout = None /\ kresults = << >>
    /\ MatIdle
    /\ ReaderIdle
    /\ EgressIdle
    /\ JoinIdle
    /\ UnionIdle
    /\ HoleIdle
    /\ TcpIdle
    /\ ConsulIdle
    /\ KeysIdle
    /\ SingleIdle

KittenNext ==
    \/ \E current \in KittenCurrents, diffs \in KittenDiffs(source_cols) : KittenApply(current, diffs)
    \/ KittenDone

SpecKitten == KittenInit /\ [][KittenNext]_vars

\* the upstream state holds any rows; every key of the node is a hole
HoleInit ==
    /\ hbase \in SUBSET Row
    /\ hstate = new_state(<<HoleIndex>>, TRUE)
    /\ hreq = {} /\ hevicted = {}
    /\ hwas = None /\ hout = None
    /\ MatIdle
    /\ ReaderIdle
    /\ EgressIdle
    /\ JoinIdle
    /\ UnionIdle
    /\ KittenIdle
    /\ TcpIdle
    /\ ConsulIdle
    /\ KeysIdle
    /\ SingleIdle

HoleNext ==
    \/ \E rec \in Record : HoleWrite(rec)
    \/ HoleDone
    \/ \E k \in KeysOf(HoleIndex) : HoleReplay(k)
    \/ \E k \in KeysOf(HoleIndex) : HoleEvict(k)

SpecHole == HoleInit /\ [][HoleNext]_vars

TcpInit ==
    /\ TcpIdle
    /\ ConsulIdle
    /\ KeysIdle
    /\ SingleIdle
    /\ MatIdle
    /\ ReaderIdle
    /\ EgressIdle
    /\ JoinIdle
    /\ UnionIdle
    /\ KittenIdle
    /\ HoleIdle
    /\ ConsulIdle
    /\ KeysIdle
    /\ SingleIdle

TcpNext ==
    \/ \E t \in Messages, io_ok \in BOOLEAN : TcpSend(t, io_ok)
    \/ TcpDeliver
    \/ TcpTryRecv
    \/ TcpDropSender
    \/ TcpDropReceiver

SpecTcp == TcpInit /\ [][TcpNext]_vars

\* the receiving thread also blocks in recv, and the peer may write frames
\* that are not messages
TcpRecvNext ==
    \/ \E io_ok \in BOOLEAN : TcpSend(300, io_ok)
    \/ TcpDeliver
    \/ TcpTryRecv
    \/ TcpRecv
    \/ TcpWriteRaw
    \/ TcpDropSender
    \/ TcpDropReceiver

SpecTcpRecv == TcpInit /\ [][TcpRecvNext]_vars

\* sender and receiver both stay: the network delivers what is written and
\* the receiving thread keeps calling try_recv, as recv does
TcpLiveNext ==
    \/ \E t \in Messages : TcpSend(t, TRUE)
    \/ TcpDeliver
    \/ TcpTryRecv

ConsulInit ==
    /\ ConsulIdle
    /\ KeysIdle
    /\ SingleIdle
    /\ MatIdle
    /\ ReaderIdle
    /\ EgressIdle
    /\ JoinIdle
    /\ UnionIdle
    /\ KittenIdle
    /\ HoleIdle
    /\ TcpIdle

ConsulNext ==
    \/ \E a \in Authorities : AuthorityInit(a)
    \/ \E a \in Authorities : \E payload \in LeaderPayloads(a) : BecomeLeaderAcquire(a, payload)
    \/ \E a \in Authorities : BecomeLeaderGet(a)
    \/ \E a \in Authorities : SurrenderLeadership(a)
    \/ \E a \in Authorities : GetLeader(a)
    \/ \E a \in Authorities : TryGetLeader(a)
    \/ \E a \in Authorities : UpdateStateCheck(a)
    \/ \E a \in Authorities : UpdateStateRead(a)
    \/ \E a \in Authorities : UpdateStateAcquire(a)
    \/ \E a \in Authorities : DestroySession(a)
    \/ \E a \in Authorities : AuthorityReturn(a)

SpecConsul == ConsulInit /\ [][ConsulNext]_vars

\* the workers of a deployment: they register, are listed, and die
WorkersNext ==
    \/ \E a \in Authorities : AuthorityInit(a)
    \/ \E a \in Authorities : RegisterWorker(a)
    \/ \E a \in Authorities : GetWorkers(a)
    \/ \E a \in Authorities : DestroySession(a)
    \/ \E a \in Authorities : AuthorityReturn(a)

SpecWorkers == ConsulInit /\ [][WorkersNext]_vars

\* authorities that call read_modify_write, each once
RmwNext ==
    \/ \E a \in Authorities : AuthorityInit(a)
    \/ \E a \in Authorities, path \in RmwPaths, k \in RmwClosures : ReadModifyWriteRead(a, path, k)
    \/ \E a \in Authorities, put_ok \in BOOLEAN : ReadModifyWritePut(a, put_ok)

SpecRmw == ConsulInit /\ [][RmwNext]_vars

SpecTcpLive ==
    /\ TcpInit /\ [][TcpLiveNext]_vars
    /\ WF_tvars(TcpDeliver \/ TcpTryRecv)

KeysInit ==
    /\ KeysIdle
    /\ SingleIdle
    /\ MatIdle
    /\ ReaderIdle
    /\ EgressIdle
    /\ JoinIdle
    /\ UnionIdle
    /\ KittenIdle
    /\ HoleIdle
    /\ TcpIdle
    /\ ConsulIdle

KeysNext ==
    \/ \E n \in NodesOnBases : AddX(n)
    \/ \E n \in NodesOn("x", IF "x" \in DOMAIN graph THEN graph["x"].fields ELSE 1) : AddY(n)
    \/ \E nd \in DOMAIN graph \ {"source"} :
        \E columns \in Columns(graph[nd].fields), choice \in OnJoinChoices(graph) :
            ProvenanceOf(nd, columns, choice)

SpecKeys == KeysInit /\ [][KeysNext]_vars

SingleInit ==
    /\ \E c \in SingleConfigs : snode = c.snode /\ sstate = c.sstate
    /\ sresult = None /\ swas = None
    /\ MatIdle
    /\ ReaderIdle
    /\ EgressIdle
    /\ JoinIdle
    /\ UnionIdle
    /\ KittenIdle
    /\ HoleIdle
    /\ TcpIdle
    /\ ConsulIdle
    /\ KeysIdle

SingleNext ==
    \/ \E mm \in {Packet("Message", None, rs) : rs \in Batches} : SingleProcess(mm)
    \/ SingleDone
    \/ \E i \in 1..2, k \in UNION {KeysOf(ix) : ix \in {<<1>>, <<2>>}} : SingleFill(i, k)
    \/ \E i \in 1..2, k \in UNION {KeysOf(ix) : ix \in {<<1>>, <<2>>}} : SingleEvict(i, k)

SpecSingle == SingleInit /\ [][SingleNext]_vars



(***************************************************************************)
(* Claims about materialize on a partial state.                            *)
(***************************************************************************)
\* the last step was a Node::process that materialized into a partial state
MaterializedPartial ==
    /\ m # None
    /\ unwrap(was).state # None
    /\ is_partial(unwrap(unwrap(was).state))
    /\ (is_regular(unwrap(m)) \/ ~(node.inner = "Internal" /\ node.base))

StateWas == unwrap(unwrap(was).state)
StateNow == unwrap(state)
DataWas == unwrap(was).data
DataNow == unwrap(m).data

\* the key of row r was a hole under some declared index before the packet
HitHole(r) == \E i \in 1..Len(StateWas.state) : is_hole(StateWas, i, r)
Applied == {r \in Record : ~HitHole(r.row)}

RECURSIVE CountIn(_, _)
CountIn(rs, set) ==
    IF rs = <<>> THEN 0
    ELSE (IF Head(rs) \in set THEN 1 ELSE 0) + CountIn(Tail(rs), set)

\* occurrences of row r in the bucket of its key under index i (0 for a hole)
Held(s, i, r) ==
    IF is_hole(s, i, r) THEN 0
    ELSE Count(s.state[i].rows[IndexKey(r, s.state[i].key)], r)

SameFilledKeys ==
    \A i \in 1..Len(StateWas.state) :
        DOMAIN StateNow.state[i].rows = DOMAIN StateWas.state[i].rows

\* C1: in materialize on a partial state every record, positive or negative,
\* whose key is a hole under a declared index is not applied to the state (no
\* bucket gains or loses its row and no hole is filled), is removed from the
\* packet's records, and produces exactly one Miss naming this node and the
\* record's values at the columns of an index under which it is a hole.
C1_HoleIsMissNotWrite ==
    MaterializedPartial =>
        LET missed == Filter(DataWas, Record \ Applied)
        IN  /\ SameFilledKeys
            /\ \A j \in 1..Len(DataWas) :
                 HitHole(DataWas[j].row) =>
                    \A i \in 1..Len(StateWas.state) :
                        Held(StateNow, i, DataWas[j].row) = Held(StateWas, i, DataWas[j].row)
            /\ \A j \in 1..Len(DataNow) : ~HitHole(DataNow[j].row)
            /\ Len(misses) = Len(missed)
            /\ \A j \in 1..Len(missed) :
                 /\ misses[j].node = ThisNode
                 /\ \E i \in 1..Len(StateWas.state) :
                      /\ is_hole(StateWas, i, missed[j].row)
                      /\ misses[j].key = IndexKey(missed[j].row, StateWas.state[i].key)

\* a negative whose row is held under one index while its key is a hole under
\* another has been processed together with a record that did not miss
C1_Witness ==
    /\ MaterializedPartial
    /\ DataNow # <<>>
    /\ \E j \in 1..Len(DataWas) :
         /\ DataWas[j].sign = "Negative"
         /\ HitHole(DataWas[j].row)
         /\ \E i \in 1..Len(StateWas.state) : Held(StateWas, i, DataWas[j].row) > 0

\* C2: after materialize on a partial state the records left in the packet
\* are exactly the input records that did not hit a hole, in their original
\* order, and each of them has been applied exactly once: every bucket holds
\* a row as often as before, plus its positives, minus its negatives among
\* those records.  A miss of one record does not stop the others.
C2_SurvivorsAppliedOnce ==
    MaterializedPartial =>
        /\ DataNow = Filter(DataWas, Applied)
        /\ \A r \in Row :
             ~HitHole(r) =>
                \A i \in 1..Len(StateWas.state) :
                    Held(StateNow, i, r) =
                        Held(StateWas, i, r)
                        + CountIn(DataWas, {[sign |-> "Positive", row |-> r]})
                        - CountIn(DataWas, {[sign |-> "Negative", row |-> r]})

\* the first record of a batch missed and a later negative was still applied
C2_Witness ==
    /\ MaterializedPartial
    /\ Len(DataWas) >= 2
    /\ HitHole(DataWas[1].row)
    /\ \E j \in 2..Len(DataWas) :
         ~HitHole(DataWas[j].row) /\ DataWas[j].sign = "Negative"
    /\ misses # <<>>

(***************************************************************************)
(* Claims about the reader.                                                *)
(***************************************************************************)
RWas == unwrap(rwas)
ROut == unwrap(rout)
RKey(rec) == rec.row[reader.key]
ReaderProcessed == rout # None
PartialReaderProcessed == rout # None /\ reader.writer /\ reader.partial

\* occurrences of row r under its key on a side of the backlog (0 for a hole)
HeldBy(side, r) ==
    IF r[reader.key] \in DOMAIN side.rows THEN Count(side.rows[r[reader.key]], r) ELSE 0

\* the write side holds every row as often as before plus the records of data
WriteSideGained(data) ==
    \A r \in ReaderRow :
        HeldBy(backlog.w, r) =
            HeldBy(RWas.backlog.w, r)
            + CountIn(data, {[sign |-> "Positive", row |-> r]})
            - CountIn(data, {[sign |-> "Negative", row |-> r]})

\* C3 (as claimed): at a partial reader, once a replay piece for key k has
\* been processed, every later regular record for k is kept and applied,
\* whatever the swap flag of the replay and of the write.
C3_WriteAfterReplayKept ==
    (PartialReaderProcessed /\ is_regular(RWas.p)) =>
        LET after == {rec \in ReaderRecord : RKey(rec) \in RWas.replayed}
        IN  /\ Filter(ROut.data, after) = Filter(RWas.p.data, after)
            /\ \A rec \in after : HeldBy(backlog.w, rec.row) =
                    HeldBy(RWas.backlog.w, rec.row)
                    + CountIn(RWas.p.data, {[sign |-> "Positive", row |-> rec.row]})
                    - CountIn(RWas.p.data, {[sign |-> "Negative", row |-> rec.row]})

\* C4 (as claimed): at a partial reader that has been swapped at least once,
\* a replay piece for a key that is already filled, its rows being on the
\* write side from an earlier replay, is dropped, with or without a swap in
\* between: it changes nothing on the write side and brings no records.
C4_DuplicateReplayDropped ==
    (PartialReaderProcessed /\ ~is_regular(RWas.p) /\ RWas.backlog.ready
        /\ RWas.p.for_key \in DOMAIN RWas.backlog.w.rows) =>
        /\ backlog.w = RWas.backlog.w
        /\ ROut.data = << >>

C6_EmptyReplayFills ==
    (PartialReaderProcessed /\ ~is_regular(RWas.p) /\ RWas.swap) =>
        lookup(backlog, RWas.p.for_key)[1] = "Hit"

\* C7: reader writes go to the write side only.  With swap = false the read
\* side, and so every lookup, is as before; with swap = true the read side is
\* the write side, which holds every record applied since the previous swap.
C7_SwapPublishes ==
    ReaderProcessed =>
        /\ reader.writer => WriteSideGained(ROut.data)
        /\ ~RWas.swap =>
              /\ backlog.r = RWas.backlog.r /\ backlog.ready = RWas.backlog.ready
              /\ \A k \in DataType : lookup(backlog, k) = lookup(RWas.backlog, k)
        /\ (RWas.swap /\ reader.writer) =>
              /\ backlog.ready /\ backlog.r = backlog.w
              /\ \A k \in DOMAIN backlog.w.rows : lookup(backlog, k) = <<"Hit", backlog.w.rows[k]>>

\* a swap that publishes records of this packet together with records that
\* were applied, unswapped, by an earlier packet
C7_Witness ==
    /\ ReaderProcessed /\ reader.writer /\ RWas.swap
    /\ ROut.data # << >>
    /\ RWas.backlog.ready
    /\ RWas.backlog.w.rows # RWas.backlog.r.rows


\* C8: for every packet processed at a reader each attached listener whose
\* channel is open receives the records taken from the packet exactly once,
\* a listener whose send failed receives nothing, and the listener list is
\* left with exactly the listeners whose send succeeded, in their order.
C8_ListenersServedAndPruned ==
    ReaderProcessed =>
        /\ \A l \in Range(RWas.streamers) :
             Len(Filter(ROut.sent, {[to |-> l, data |-> ROut.data]})) =
                IF RWas.alive[l] THEN 1 ELSE 0
        /\ Len(ROut.sent) = Cardinality({l \in Range(RWas.streamers) : RWas.alive[l]})
        /\ streamers = Filter(RWas.streamers, {l \in Listeners : RWas.alive[l]})
        /\ ~(reader.writer /\ reader.partial) => ROut.data = RWas.p.data

\* three listeners, the middle one has hung up, the others got the records
C8_Witness ==
    /\ ReaderProcessed
    /\ Len(RWas.streamers) = 3
    /\ ~RWas.alive[RWas.streamers[2]]
    /\ RWas.alive[RWas.streamers[1]] /\ RWas.alive[RWas.streamers[3]]
    /\ ROut.data # << >>
    /\ Len(streamers) = 2

(***************************************************************************)
(* Claims about the egress.                                                *)
(***************************************************************************)
EWas == unwrap(ewas)
EOut == unwrap(eout)
EgressProcessed == eout # None /\ ~egress_expect_fails(EWas.p, EWas.tags)
AllSendsSucceed == \A i \in 1..Len(EWas.txs) : EWas.up[EWas.txs[i].globaddr]

\* C9: for a regular packet at an egress whose sends all succeed every
\* registered channel receives exactly one copy of the packet's data, in the
\* order of the channels, linked from the egress to the channel's destination:
\* a clone on each non-last channel and the original on the last one.
C9_EveryChannelOneCopy ==
    (EgressProcessed /\ is_regular(EWas.p) /\ AllSendsSucceed /\ EWas.txs # << >>) =>
        /\ Len(EOut.sent) = Len(EWas.txs)
        /\ \A i \in 1..Len(EOut.sent) :
             /\ EOut.sent[i].txi = i
             /\ EOut.sent[i].ok
             /\ EOut.sent[i].packet.kind = EWas.p.kind
             /\ EOut.sent[i].packet.data = EWas.p.data
             /\ EOut.sent[i].packet.link = [src |-> EgressIndex, dst |-> EWas.txs[i].dst]
             /\ EOut.sent[i].original = (i = Len(EWas.txs))
        /\ EOut.m = None
        /\ ~EOut.panicked

\* a message with records has gone out on three channels
C9_Witness ==
    /\ EgressProcessed /\ is_regular(EWas.p) /\ AllSendsSucceed
    /\ Len(EWas.txs) = 3
    /\ EWas.p.data # << >>
    /\ Len(EOut.sent) = 3

\* C10: a replay packet at an egress is sent on exactly one channel, the one
\* whose global address is the entry of the tag-routing table for the
\* packet's tag, wherever that channel is in the list; it is the original
\* packet that is sent, linked to that channel's destination.
C10_ReplayToTaggedChannelOnly ==
    (EgressProcessed /\ EWas.p.kind = "Replay") =>
        /\ Len(EOut.sent) = 1
        /\ EWas.txs[EOut.sent[1].txi].globaddr = EWas.tags[EWas.p.tag]
        /\ EOut.sent[1].original
        /\ EOut.sent[1].packet =
              [EWas.p EXCEPT !.link = [src |-> EgressIndex,
                                       dst |-> EWas.txs[EOut.sent[1].txi].dst]]
        /\ EOut.m = None

\* a replay piece for the middle one of three channels
C10_Witness ==
    /\ EgressProcessed /\ EWas.p.kind = "Replay"
    /\ Len(EWas.txs) = 3
    /\ EWas.tags[EWas.p.tag] = EWas.txs[2].globaddr
    /\ Len(EOut.sent) = 1 /\ EOut.sent[1].txi = 2

(***************************************************************************)
(* Claims about the join.                                                  *)
(***************************************************************************)
JWas == unwrap(jwas)
JOut == unwrap(jout)
\* the last step was an on_input of the join for a record of parent from
JoinProcessed == jout # None /\ JWas.reached
JOther == other_side(JWas.from)
InnerJoin == \A sd \in Sides : ~jcfg.outer[sd]

\* rows lrow of l and rrow of r agree on every pair of columns that share a group
JoinsWith(lrow, rrow) ==
    \A cl \in DOMAIN jcfg.groups["l"], cr \in DOMAIN jcfg.groups["r"] :
        (jcfg.groups["l"][cl] # 0 /\ jcfg.groups["l"][cl] = jcfg.groups["r"][cr]) =>
            lrow[cl] = rrow[cr]

\* the output row of the pair: column i from the source and column of emit[i]
Emitted(lrow, rrow) ==
    [i \in 1..Len(jcfg.emit) |->
        IF jcfg.emit[i][1] = "l" THEN lrow[jcfg.emit[i][2]] ELSE rrow[jcfg.emit[i][2]]]

Pair(mine, theirs) ==
    IF JWas.from = "l" THEN [l |-> mine, r |-> theirs] ELSE [l |-> theirs, r |-> mine]

\* the rows of the other parent that join with the record, in insertion order
JMatches ==
    Filter(JWas.tab[JOther].rows,
           {row \in Row : JoinsWith(Pair(JWas.rec.row, row).l, Pair(JWas.rec.row, row).r)})

\* the values of the record in its join columns: the key looked up in the other parent
JKey ==
    LET f == JoinTarget(jcfg, JWas.from).fields
    IN  [i \in 1..Len(f) |-> JWas.rec.row[f[i][1]]]

\* the other parent is partial and the join key of the record is a hole in it
OtherIsHole ==
    /\ is_some(JWas.tab[JOther].st)
    /\ is_partial(unwrap(JWas.tab[JOther].st))
    /\ JKey \notin DOMAIN unwrap(JWas.tab[JOther].st).state[1].rows

\* C11 (as claimed): when the join's lookup into the other side's state hits
\* a hole the join emits no output row, a left join no None-padded row, and
\* it reports a miss.
C11_JoinHoleIsMiss ==
    (JoinProcessed /\ OtherIsHole) =>
        /\ JOut.rs = << >>
        /\ JOut.misses # << >>

\* the other parent holds all its rows: it is a base or is not materialized
OtherIsWhole ==
    is_some(JWas.tab[JOther].st) => ~is_partial(unwrap(JWas.tab[JOther].st))

\* C12: for each record arriving at an inner join from one side the join emits
\* exactly one record per row of the other side whose join columns equal the
\* record's, in the order of those rows, each with the sign of the input and
\* every column taken from the source and column named in emit; with no
\* matching row it emits nothing.
C12_InnerJoinOnePerMatch ==
    (JoinProcessed /\ InnerJoin /\ OtherIsWhole) =>
        /\ Len(JOut.rs) = Len(JMatches)
        /\ \A k \in 1..Len(JMatches) :
             /\ JOut.rs[k].sign = JWas.rec.sign
             /\ JOut.rs[k].row =
                  Emitted(Pair(JWas.rec.row, JMatches[k]).l, Pair(JWas.rec.row, JMatches[k]).r)

\* a delete that joins with two rows of the other side
C12_Witness ==
    /\ JoinProcessed /\ InnerJoin /\ OtherIsWhole
    /\ JWas.rec.sign = "Negative"
    /\ Len(JMatches) = 2
    /\ Len(JOut.rs) = 2 /\ JOut.rs[1] # JOut.rs[2]

\* C13: in a left join a record from the non-outer side with no matching row
\* on the outer side produces exactly one record, with the input's sign, its
\* own values in its emitted columns and None in every column emitted from
\* the outer side; a record from the outer side with no match produces nothing.
C13_LeftJoinPadsNonOuterOnly ==
    (JoinProcessed /\ ~InnerJoin /\ OtherIsWhole /\ JMatches = << >>) =>
        IF jcfg.outer[JOther]
        THEN /\ Len(JOut.rs) = 1
             /\ JOut.rs[1].sign = JWas.rec.sign
             /\ \A i \in 1..Len(jcfg.emit) :
                  JOut.rs[1].row[i] =
                     IF jcfg.emit[i][1] = JOther THEN DataType_None
                     ELSE JWas.rec.row[jcfg.emit[i][2]]
        ELSE JOut.rs = << >>

\* a delete on the non-outer side while the outer side holds rows of another key
C13_Witness ==
    /\ JoinProcessed /\ ~InnerJoin /\ OtherIsWhole /\ JMatches = << >>
    /\ jcfg.outer[JOther]
    /\ JWas.rec.sign = "Negative"
    /\ JWas.tab[JOther].rows # << >>
    /\ Len(JOut.rs) = 1

\* C14 (as claimed): for a join, inner or left, over two bases, once every
\* inserted row has been deleted again the net multiset of records the join
\* has emitted is empty.
C14_InsertsThenDeletesNetEmpty ==
    (over_bases(jtab) /\ \A sd \in Sides : jtab[sd].rows = << >>) => jnet = << >>

\* how often the equi-join of the two bases holds output row o
JoinCount(o) ==
    Cardinality({ij \in (1..Len(jtab["l"].rows)) \X (1..Len(jtab["r"].rows)) :
        /\ JoinsWith(jtab["l"].rows[ij[1]], jtab["r"].rows[ij[2]])
        /\ Emitted(jtab["l"].rows[ij[1]], jtab["r"].rows[ij[2]]) = o})

JoinOutputs ==
    {Emitted(jtab["l"].rows[ij[1]], jtab["r"].rows[ij[2]]) :
        ij \in {xy \in (1..Len(jtab["l"].rows)) \X (1..Len(jtab["r"].rows)) :
                    JoinsWith(jtab["l"].rows[xy[1]], jtab["r"].rows[xy[2]])}}

\* C15: for an inner join over two bases, after any sequence of single-row
\* inserts and deletes of present rows on either base, the net multiset of
\* records the join has emitted is the equi-join of the current contents of
\* the two bases.
C15_InnerJoinNetIsEquiJoin ==
    (over_bases(jtab) /\ InnerJoin) =>
        /\ DOMAIN jnet = JoinOutputs
        /\ \A o \in DOMAIN jnet : jnet[o] = JoinCount(o)

\* a delete has left the join with a row that is still joined
C15_Witness ==
    /\ JoinProcessed /\ over_bases(jtab) /\ InnerJoin
    /\ JWas.rec.sign = "Negative"
    /\ JOut.rs # << >>
    /\ jnet # << >>

\* C16 (as claimed): every negative record emitted by a join, inner or left,
\* over two bases equals a positive record the join emitted earlier that no
\* other negative has cancelled: no output row has more negatives than
\* positives.
C16_NegativeHasPositiveTwin ==
    over_bases(jtab) => \A o \in DOMAIN jnet : jnet[o] > 0

(***************************************************************************)
(* Claims about the union.                                                 *)
(***************************************************************************)
UWas == unwrap(uwas)
UOut == unwrap(uout)

\* C17: Union::forward emits exactly one record per input record, in input
\* order, with the input's sign and timestamp and with the columns of
\* emit[from] in that order; a row equal to one already emitted, in the same
\* update or by the other parent, is emitted again.
C17_UnionOnePerInput ==
    uout # None =>
        /\ Len(UOut) = Len(UWas.rs)
        /\ \A k \in 1..Len(UOut) :
             /\ UOut[k].sign = UWas.rs[k].sign
             /\ UOut[k].ts = UWas.rs[k].ts
             /\ Len(UOut[k].row) = Len(uemit[UWas.from])
             /\ \A i \in 1..Len(UOut[k].row) :
                  UOut[k].row[i] = UWas.rs[k].row[uemit[UWas.from][i]]

\* the other parent has just emitted a row, and this update carries two
\* records that both come out as that same row
C17_Witness ==
    /\ uout # None /\ uprev # None
    /\ unwrap(uprev).from # UWas.from
    /\ Len(UOut) = 2
    /\ UOut[1].row = UOut[2].row
    /\ UOut[1].row \in unwrap(uprev).rows
    /\ UOut[1].ts # UOut[2].ts

(***************************************************************************)
(* Claims about GroupConkitten::apply                                      *)
(***************************************************************************)
KWas == unwrap(kwas)
KOut == unwrap(kout)
KittenApplied == kout # None /\ KWas.diffs # << >>
KGroup == Head(KWas.diffs).group_by
KCached == KGroup \in DOMAIN KWas.last_state
\* the state holds a text for the group that the cache does not account for
KUnmatched ==
    /\ is_some(KWas.current) /\ unwrap(KWas.current).t = "Text"
    /\ IF KCached THEN KWas.last_state[KGroup].string_repr # unwrap(KWas.current).s ELSE TRUE
KNoText == IF is_some(KWas.current) THEN unwrap(KWas.current).t # "Text" ELSE TRUE

\* C18: when the state supplies a current text aggregate for the group and the
\* operator holds no cached state for the group, or a cached string that
\* differs from it, apply returns GroupedStateLost, returns no aggregate and
\* caches none for the group.
C18_UnmatchedTextIsStateLost ==
    (KittenApplied /\ KUnmatched) =>
        /\ KOut = <<"Err", "GroupedStateLost">>
        /\ KGroup \notin DOMAIN last_state

C18_Witness ==
    /\ KittenApplied /\ KUnmatched /\ KCached
    /\ is_some(current_text(KWas.current))
    /\ KOut[1] = "Err"

\* the sequence a diff leaves: the value appended, or its last occurrence
\* removed; << "absent" >> marks a removal of a value the sequence lacks
KStep(seq, diff) ==
    LET v == diff.record.data[1]
        at == {i \in 1..Len(seq) : seq[i] = v}
    IN  IF diff.record.sign = "Positive" THEN [ok |-> TRUE, seq |-> Append(seq, v)]
        ELSE IF at = {} THEN [ok |-> FALSE, seq |-> seq]
        ELSE LET last == CHOOSE i \in at : \A k \in at : k <= i
             IN  [ok |-> TRUE,
                  seq |-> SubSeq(seq, 1, last - 1) \o SubSeq(seq, last + 1, Len(seq))]

RECURSIVE KSteps(_, _)
KSteps(acc, diffs) ==
    IF diffs = << >> \/ ~acc.ok THEN acc
    ELSE KSteps(KStep(acc.seq, Head(diffs)), Tail(diffs))

RECURSIVE KJoined(_)
KJoined(seq) ==
    IF seq = << >> THEN ""
    ELSE IF Len(seq) = 1 THEN concat_fmt(seq[1])
    ELSE concat_fmt(seq[1]) \o separator \o KJoined(Tail(seq))

\* the group's previous sequence: the cached one the current text stands for,
\* the empty one when the state holds no text for the group
KPrevious ==
    IF KNoText THEN << >> ELSE KWas.last_state[KGroup].data_for_source_cols[1]

KExpected == KSteps([ok |-> TRUE, seq |-> KPrevious], KWas.diffs)

\* C19: with one aggregated column, apply returns the values of the previous
\* sequence, with each positive diff's value appended and the last equal
\* occurrence removed for each negative diff, in diff order, joined by the
\* separator with none leading or trailing; a removal of a value the
\* sequence lacks is an error.
C19_OneColumnIsJoinedSequence ==
    (KittenApplied /\ source_cols = 1 /\ ~KUnmatched) =>
        IF KExpected.ok THEN KOut = <<"Ok", KJoined(KExpected.seq)>>
        ELSE KOut[1] = "Err"

\* a value held twice with another between loses its last occurrence
C19_Witness ==
    /\ KittenApplied /\ source_cols = 1 /\ ~KUnmatched /\ ~KNoText
    /\ KPrevious = <<DataType_Int(1), DataType_Text("2"), DataType_Int(1)>>
    /\ KWas.diffs = <<KittenDiff(FALSE, <<DataType_Int(1)>>, KGroup)>>
    /\ KOut = <<"Ok", "1#2">>

(***************************************************************************)
(* Claims about a negative record that reaches a hole                      *)
(***************************************************************************)
HWas == unwrap(hwas)
HOut == unwrap(hout)
HKey(r) == IndexKey(r, HoleIndex)
HFilled == DOMAIN hstate.state[1].rows
\* the last write was a negative whose key was a hole of the state
NegativeAtHole ==
    /\ hout # None
    /\ HWas.rec.sign = "Negative"
    /\ HKey(HWas.rec.row) \notin DOMAIN HWas.state.state[1].rows

TWas == unwrap(twas)
TOut == unwrap(tout)
IsPrefix(a, b) == Len(a) <= Len(b) /\ a = SubSeq(b, 1, Len(a))

\* C21: the messages the receiver has returned are at every moment the first
\* of the messages sent, in the order they were sent, each once, under every
\* interleaving of the sending and the receiving thread; and again and again
\* the receiver has returned every message sent.
C21_ReceivedInOrderOnce ==
    /\ [](IsPrefix(treceived, tsent))
    /\ []<>(treceived = tsent)

\* two messages that differ, the second sent while the frame of the first
\* was half read, both received
C21_Witness ==
    /\ Len(tsent) = 2 /\ tsent[1] # tsent[2]
    /\ treceived = tsent
    /\ twas # None /\ TWas.op = "try_recv"
    /\ TWas.receiver.buffer # << >> /\ TWas.received = <<tsent[1]>>

\* the frame of a message: its length in four bytes, most significant first,
\* then its body
FrameOf(t) ==
    CASE t = 12 -> <<0, 0, 0, 4, 12, 0, 0, 0>>
      [] t = 65 -> <<0, 0, 0, 4, 65, 0, 0, 0>>
      [] t = 300 -> <<0, 0, 0, 4, 44, 1, 0, 0>>

RECURSIVE FramesOf(_)
FramesOf(msgs) == IF msgs = << >> THEN << >> ELSE FrameOf(Head(msgs)) \o FramesOf(Tail(msgs))

Unread(got) == SubSeq(tsent, Len(got) + 1, Len(tsent))

TcpTried == tout # None /\ twas # None /\ TWas.op = "try_recv" /\ ~TWas.receiver.poisoned
\* the bytes of the next frame the receiver had at hand in the last try_recv
TcpAtHand == Len(TWas.receiver.buffer) + TWas.arrived
\* the last try_recv found the connection closed and nothing left to read
TcpAtEnd == ~TWas.sender.alive /\ TcpAtHand = 0

\* C22: what the connection carries is the frames of the messages sent, each
\* the 4-byte big-endian length and then the body; a try_recv with less than
\* the whole next frame at hand returns Empty, yields no message, reports no
\* error and discards no byte; with the whole frame at hand it returns the
\* message.
C22_WholeFramesOnly ==
    /\ receiver.buffer \o stream = FramesOf(Unread(treceived))
    /\ (TcpTried /\ ~TcpAtEnd /\ Unread(TWas.received) # << >>) =>
        IF TcpAtHand < Len(FrameOf(Head(Unread(TWas.received))))
        THEN /\ TOut = <<"Err", "Empty">>
             /\ treceived = TWas.received
             /\ ~receiver.poisoned
             /\ receiver.buffer \o stream = TWas.receiver.buffer \o TWas.stream
        ELSE /\ TOut = <<"Ok", Head(Unread(TWas.received))>>
             /\ treceived = Append(TWas.received, Head(Unread(TWas.received)))
    /\ (TcpTried /\ ~TcpAtEnd /\ Unread(TWas.received) = << >>) =>
        TOut = <<"Err", "Empty">> /\ treceived = TWas.received /\ ~receiver.poisoned

\* a message returned by the try_recv that found the last bytes of its frame,
\* after others had returned Empty on its length and on part of its body
C22_Witness ==
    /\ TcpTried
    /\ Len(TWas.receiver.buffer) = 5
    /\ TOut = <<"Ok", 300>>

(***************************************************************************)
(* Claims about ConsulAuthority                                            *)
(***************************************************************************)
ControllerPath == prefix_with_deployment(CONTROLLER_KEY)
StatePath == prefix_with_deployment(STATE_KEY)
\* the session that holds the controller key in kv, None if none does
HolderIn(kv) == IF ControllerPath \in DOMAIN kv THEN kv[ControllerPath].Session ELSE None
\* the authorities whose last call was op and has answered
Answered(op) ==
    {a \in Authorities :
        IF called[a] = None THEN FALSE
        ELSE unwrap(called[a]).op = op /\ unwrap(called[a]).res # None}
Before(a) == unwrap(called[a]).before
Answer(a) == unwrap(unwrap(called[a]).res)
Asked(a) == unwrap(called[a]).arg

\* C23: the controller key is held by at most one session, a live one, and
\* carries the payload its holder gave; become_leader answers Some(payload)
\* only if no other session held the key when it asked, and None to every
\* authority with a live session that asked while another held it, and such
\* a call leaves the key as it was;
\* get_leader answers the holder's payload.
C23_OneLeader ==
    /\ is_some(HolderIn(consul_kv)) =>
        /\ unwrap(HolderIn(consul_kv)) \in consul_sessions
        /\ serde_json_from_slice(consul_kv[ControllerPath].Value)
                \in LeaderPayloads(unwrap(HolderIn(consul_kv)))
    /\ \A a \in Answered("become_leader") :
        LET held == is_some(HolderIn(Before(a).kv)) /\ HolderIn(Before(a).kv) # Some(a)
        IN  /\ held => consul_kv = Before(a).kv
            /\ (held /\ a \in Before(a).live) => Answer(a) = <<"Ok", None>>
            /\ Answer(a) = <<"Ok", Some(Asked(a))>> => ~held
    /\ \A a \in Answered("get_leader") :
        /\ is_some(HolderIn(consul_kv))
        /\ Answer(a)[2] \in LeaderPayloads(unwrap(HolderIn(consul_kv)))

\* a2 asks while a1, alive, holds the key
C23_Witness ==
    /\ "a2" \in Answered("become_leader")
    /\ HolderIn(Before("a2").kv) = Some("a1")
    /\ "a1" \in consul_sessions
    /\ Answer("a2") = <<"Ok", None>>

\* C24: a become_leader by an authority with a live session, made when no
\* session holds the controller key, because its holder's session was
\* destroyed or its holder surrendered, answers Some(payload), and while that
\* authority holds the key it carries that payload, which is what get_leader
\* answers.
C24_NextLeaderSucceeds ==
    \A a \in Answered("become_leader") :
        (HolderIn(Before(a).kv) = None /\ a \in Before(a).live) =>
            /\ Answer(a) = <<"Ok", Some(Asked(a))>>
            /\ HolderIn(consul_kv) = Some(a) =>
                serde_json_from_slice(consul_kv[ControllerPath].Value) = Asked(a)

\* a2 becomes leader after a1, still alive, surrendered
C24_Witness ==
    /\ "a2" \in Answered("become_leader")
    /\ ControllerPath \in DOMAIN Before("a2").kv
    /\ HolderIn(Before("a2").kv) = None
    /\ "a1" \in Before("a2").live
    /\ Answer("a2") = <<"Ok", Some(2)>>
    /\ HolderIn(consul_kv) = Some("a2")

\* C25: an update_controller_state by an authority whose session does not hold
\* the controller key when it calls answers an error.
C25_OnlyLeaderUpdatesState ==
    \A a \in Answered("update_controller_state") :
        HolderIn(Before(a).kv) # Some(a) => Answer(a) = <<"Err">>

\* C26: try_get_leader answers NoLeader when the controller key is absent or
\* no session holds it; NewLeader(payload), caching the key's index, when a
\* session holds it and the index is greater than the cached one or none is
\* cached; Unchanged when a session holds it and the index is not greater;
\* and Unchanged to the authority that holds the key itself.
C26_TryGetLeader ==
    \A a \in Answered("try_get_leader") :
        LET kv == Before(a).kv
            cached == Before(a).controller_index
        IN  IF HolderIn(kv) = None
            THEN /\ Answer(a) = <<"Ok", <<"NoLeader">> >>
                 /\ authority[a].controller_index = cached
            ELSE LET fresh == IF cached = None THEN TRUE
                              ELSE kv[ControllerPath].ModifyIndex > unwrap(cached)
                 IN  /\ IF fresh
                        THEN /\ Answer(a) = <<"Ok", <<"NewLeader",
                                    serde_json_from_slice(kv[ControllerPath].Value)>> >>
                             /\ authority[a].controller_index = Some(kv[ControllerPath].ModifyIndex)
                        ELSE /\ Answer(a) = <<"Ok", <<"Unchanged">> >>
                             /\ authority[a].controller_index = cached
                     /\ HolderIn(kv) = Some(a) => Answer(a) = <<"Ok", <<"Unchanged">> >>

\* the leader asks right after its become_leader
C26_Witness ==
    /\ "a1" \in Answered("try_get_leader")
    /\ HolderIn(Before("a1").kv) = Some("a1")
    /\ Answer("a1") = <<"Ok", <<"Unchanged">> >>

\* the workers registered whose sessions are alive
LiveWorkers(kv, live) ==
    {a \in live : prefix_with_deployment(worker_id_to_path(a)) \in DOMAIN kv}

Traced == unwrap(traced)
\* the last provenance_of started at a node of this kind, asking for its own columns
TracedAt(kind) == IF traced = None THEN FALSE ELSE graph[Traced.node].kind = kind
\* the second step of the paths that start at the traced node
StepsToParents == {path[2] : path \in Traced.paths}
\* the column of parent p that column col of join j is, None if it is none of p's:
\* the column emit names, or the column of p joined with it
JoinColumnAt(j, col, p) ==
    LET src == j.emit[col + 1][1]
        c == j.emit[col + 1][2]
        group == j.groups[src][c + 1]
        twins == {d \in 0..(Len(j.groups[p]) - 1) : j.groups[p][d + 1] = group}
    IN  IF p = src THEN Some(c)
        ELSE IF group # 0 /\ twins # {} THEN Some(CHOOSE d \in twins : TRUE)
        ELSE None
\* the column of parent p that emit names for column col of join j, None if
\* emit names another parent
JoinEmitAt(j, col, p) ==
    IF j.emit[col + 1][1] = p THEN Some(j.emit[col + 1][2]) ELSE None
IsJoinKey(j, col) == j.groups[j.emit[col + 1][1]][j.emit[col + 1][2] + 1] # 0
\* the parents the trace of a join follows
Followed(j, choice) == IF choice = 0 THEN Range(j.parents) ELSE {j.parents[choice]}

\* the paths of a trace through a join over two bases go to the parents
\* followed, one path each, with the columns at gives
JoinTraces(at(_, _, _)) ==
    TracedAt("Joiner") =>
        LET j == graph[Traced.node]
        IN  /\ \A path \in Traced.paths : Len(path) = 2
            /\ Cardinality(Traced.paths) = Cardinality(Followed(j, Traced.on_join))
            /\ StepsToParents =
                {<<p, [i \in 1..Len(Traced.columns) |-> at(j, Traced.columns[i], p)]>> :
                    p \in Followed(j, Traced.on_join)}

\* C28: a provenance_of at a join whose on_join answers None returns one path
\* per parent, and one that answers Some(parent) returns the path to that
\* parent only; the parent that supplies a column carries its column index,
\* a join-key column carries an index on both parents, and every other
\* parent carries None.
C28_JoinTracesEachParent == JoinTraces(JoinColumnAt)

\* the same with a join-key column carrying an index on the parent that emit
\* names only
JoinTracesEmitOnly == JoinTraces(JoinEmitAt)

\* a column of a node that no column of a parent stands behind
Generated(n, c) == n.kind = "Project" /\ c >= Len(n.emit)
\* the column of the parent that column c of a one-parent node or a union is,
\* on the way to parent p
ParentColumn(n, c, p) ==
    IF n.kind = "Project" THEN n.emit[c + 1]
    ELSE IF n.kind = "Union" THEN n.emit[p][c + 1]
    ELSE c

\* C29: in every path provenance_of returns, a column generated at a node is
\* None at the node's parent, a column that is None at a node is None at every
\* node further along the path, and a column that is not generated at a
\* projection, an ingress or a union carries the parent's column at the next
\* node.
C29_GeneratedStaysNone ==
    traced # None =>
        \A path \in Traced.paths :
            \A k \in 1..(Len(path) - 1), i \in 1..Len(Traced.columns) :
                LET n == graph[path[k][1]]
                    c == path[k][2][i]
                    next == path[k + 1][2][i]
                IN  /\ Len(path[k + 1][2]) = Len(Traced.columns)
                    /\ IF c = None THEN next = None
                       ELSE IF Generated(n, unwrap(c)) THEN next = None
                       ELSE n.kind # "Joiner" =>
                                next = Some(ParentColumn(n, unwrap(c), path[k + 1][1]))

\* a literal of y and a column of x traced together down to a base: y, x, a
C29_Witness ==
    /\ traced # None
    /\ \E path \in Traced.paths :
        /\ Len(path) = 3 /\ Len(Traced.columns) = 2
        /\ Generated(graph[path[1][1]], Traced.columns[1])
        /\ path[2][2][1] = None /\ path[3][2][1] = None
        /\ path[2][2][2] # None /\ path[3][2][2] # None

\* C30: Union::resolve answers with one entry per parent of the union, the
\* parent and the column emit has for it, and a provenance_of at a union over
\* two bases returns one path per parent, each carrying that parent's columns.
C30_UnionTracesEveryParent ==
    /\ \A nd \in DOMAIN graph :
        graph[nd].kind = "Union" =>
            \A col \in 0..(graph[nd].fields - 1) :
                LET entries == Union_resolve(graph[nd], col)
                IN  /\ Cardinality(entries) = Len(graph[nd].parents)
                    /\ \A p \in Range(graph[nd].parents) :
                        <<p, graph[nd].emit[p][col + 1]>> \in entries
    /\ TracedAt("Union") =>
        LET u == graph[Traced.node]
        IN  /\ Cardinality(Traced.paths) = Len(u.parents)
            /\ \A path \in Traced.paths : Len(path) = 2
            /\ StepsToParents =
                {<<p, [i \in 1..Len(Traced.columns) |-> Some(u.emit[p][Traced.columns[i] + 1])]>> :
                    p \in Range(u.parents)}

\* a union that swaps the columns of one parent, both columns traced
C30_Witness ==
    /\ TracedAt("Union")
    /\ Len(Traced.columns) = 2
    /\ graph[Traced.node].emit["a"] # graph[Traced.node].emit["b"]
    /\ Cardinality(Traced.paths) = 2

(***************************************************************************)
(* Claims about replays through a base                                     *)
(***************************************************************************)
\* the node is a base and has just processed a packet
BaseProcessed == m # None /\ node.inner = "Internal" /\ node.base

\* C31: a replay piece processed at an Internal node that is a base leaves the
\* node's state as it was, every row held as often as before; a packet that
\* changed the state of a base was a regular one.
C31_ReplayThroughBaseKeepsState ==
    BaseProcessed =>
        /\ ~is_regular(unwrap(m)) =>
            /\ state = unwrap(was).state
            /\ \A r \in Row : \A i \in 1..Len(StateWas.state) :
                    Held(StateNow, i, r) = Held(StateWas, i, r)
        /\ state # unwrap(was).state => is_regular(unwrap(m))

\* a replay piece with a positive record went through a base that holds state
C31_Witness ==
    /\ BaseProcessed
    /\ unwrap(m).kind = "ReplayPiece"
    /\ unwrap(was).state # None
    /\ \E j \in 1..Len(DataWas) : DataWas[j].sign = "Positive"

(***************************************************************************)
(* Claims about NodeDescriptor::process (Ingress and Internal)             *)
(***************************************************************************)
SWas == unwrap(swas)
SRes == unwrap(sresult)
SStateWas == unwrap(SWas.state)
\* the records the node's materialize was given: the packet's, as the
\* operator of an Internal node left them
Presented ==
    IF snode.inner = "Internal" /\ snode.kernel = "swap"
    THEN [j \in 1..Len(SWas.m.data) |->
            [sign |-> SWas.m.data[j].sign,
             row |-> <<SWas.m.data[j].row[2], SWas.m.data[j].row[1]>>]]
    ELSE SWas.m.data
\* the node has materialized a packet into a partial state
SingleMaterializedPartial ==
    /\ sresult # None
    /\ SWas.state # None
    /\ IF SWas.state = None THEN FALSE ELSE is_partial(SStateWas)
    /\ ~(snode.inner = "Internal" /\ snode.kernel = "lookup" /\ SWas.m.data # <<>>)
SHitHole(r) == \E i \in 1..Len(SStateWas.state) : is_hole(SStateWas, i, r)
SMissing == {j \in 1..Len(Presented) : SHitHole(Presented[j].row)}

\* C32: when a record of the batch hits a hole of the node's partial state,
\* the state is left as it was, the result is NeedReplay naming this node and
\* the key, under an index with the hole, of the first record that hit one,
\* and the packet returned holds the records as they came in, before the
\* operator of an Internal node ran; when none does, the result is Done and
\* every record has been applied.
C32_AllOrNothing ==
    SingleMaterializedPartial =>
        IF SMissing # {}
        THEN LET first == CHOOSE j \in SMissing : \A y \in SMissing : j <= y
                 r == Presented[first].row
             IN  /\ sstate = SWas.state
                 /\ SRes.kind = "NeedReplay"
                 /\ SRes.node = ThisNode
                 /\ \E i \in 1..Len(SStateWas.state) :
                        /\ is_hole(SStateWas, i, r)
                        /\ SRes.key = IndexKey(r, SStateWas.state[i].key)
                 /\ SRes.was = SWas.m
        ELSE /\ SRes.kind = "Done"
             /\ SRes.m.data = Presented
             /\ \A r \in Row : \A i \in 1..Len(SStateWas.state) :
                    Held(unwrap(sstate), i, r) =
                        Held(SStateWas, i, r)
                        + CountIn(Presented, {[sign |-> "Positive", row |-> r]})
                        - CountIn(Presented, {[sign |-> "Negative", row |-> r]})

\* at an Internal node that swaps the columns, the first record of the batch
\* found its key filled and the second hit a hole
C32_Witness ==
    /\ SingleMaterializedPartial
    /\ snode.inner = "Internal" /\ snode.kernel = "swap"
    /\ Len(Presented) = 2
    /\ SMissing = {2}
    /\ Presented # SWas.m.data
    /\ SRes.kind = "NeedReplay"

(***************************************************************************)
(* Claims about the packet an egress is left with                          *)
(***************************************************************************)
\* C33: on every path out of the egress's processing the packet has been
\* taken by a send, so that debug_assert!(m.is_none()) holds: whatever the
\* channels, the tag table and the outcomes of the sends, nothing is left of
\* the packet and the build has not panicked.
C33_PacketConsumed ==
    (eout # None /\ ~egress_expect_fails(EWas.p, EWas.tags)) =>
        /\ EOut.m = None
        /\ ~EOut.panicked

\* the same for an egress with a channel, all of whose sends succeed and
\* whose replays are for a child that has a channel
PacketConsumedWhenSendsSucceed ==
    (/\ eout # None
     /\ ~egress_expect_fails(EWas.p, EWas.tags)
     /\ EWas.txs # <<>>
     /\ \A i \in 1..Len(EOut.sent) : EOut.sent[i].ok
     /\ EOut.sent # <<>>) =>
        /\ EOut.m = None
        /\ ~EOut.panicked

\* C34: a TcpSender is poisoned for good by its first failed write: a send
\* on a poisoned sender answers Poisoned, writes nothing to the stream and
\* leaves the sender poisoned; a send that fails on a sender that was not
\* poisoned poisons it; a send that succeeds leaves the sender unpoisoned;
\* and no step ever clears the poisoned flag.
C34_SenderPoisonedForGood ==
    /\ []((twas # None /\ tout # None /\ TWas.op = "send") =>
            /\ TWas.sender.poisoned =>
                    /\ TOut = <<"Err", "Poisoned">>
                    /\ stream = TWas.stream
                    /\ sender.poisoned
            /\ (~TWas.sender.poisoned /\ TOut[1] = "Err") =>
                    /\ TOut = <<"Err", "IoError">>
                    /\ sender.poisoned
            /\ TOut = <<"Ok">> => ~sender.poisoned)
    /\ [][sender.poisoned => sender'.poisoned]_vars

\* a send on a sender that an earlier failed write has poisoned
C34_Witness ==
    /\ twas # None /\ tout # None
    /\ TWas.op = "send"
    /\ TWas.sender.poisoned
    /\ TOut = <<"Err", "Poisoned">>
    /\ tsent # << >>

\* the last call on the connection was a try_recv or a pass of recv
TcpReceiving == twas # None /\ tout # None /\ TWas.op \in {"try_recv", "recv"}
ReceiveErrors == {<<"Err", "Disconnected">>, <<"Err", "DeserializationError">>}

\* C35: a TcpReceiver is poisoned for good by its first I/O or
\* deserialization error: a try_recv on a poisoned receiver answers
\* Disconnected and yields no message, recv on a poisoned receiver returns
\* that error instead of going round its loop, an answer of Empty leaves the
\* receiver unpoisoned, recv never returns Empty, and no step clears the
\* poisoned flag.
C35_ReceiverPoisonedForGood ==
    /\ [](TcpReceiving =>
            /\ TWas.receiver.poisoned =>
                    /\ TOut = <<"Err", "Disconnected">>
                    /\ treceived = TWas.received
                    /\ receiver.poisoned
            /\ TOut \in ReceiveErrors => receiver.poisoned
            /\ TOut \in {<<"Err", "Empty">>, <<"continue">>} =>
                    ~TWas.receiver.poisoned /\ ~receiver.poisoned
            /\ TWas.op = "recv" => TOut # <<"Err", "Empty">>)
    /\ [][receiver.poisoned => receiver'.poisoned]_vars

\* recv on a receiver that a frame of another type has poisoned, with a
\* whole message waiting behind that frame
C35_Witness ==
    /\ TcpReceiving
    /\ TWas.op = "recv"
    /\ TWas.receiver.poisoned
    /\ TOut = <<"Err", "Disconnected">>
    /\ sender.alive
    /\ TWas.arrived >= 8

\* the apply follows on the last apply for its group: the state holds what
\* that apply returned, or holds nothing when the group has had no apply
KChained ==
    IF KGroup \in DOMAIN KWas.results
    THEN /\ KWas.results[KGroup][1] = "Ok"
         /\ KWas.current = Some(DataType_Text(KWas.results[KGroup][2]))
    ELSE KWas.current = None

\* C36: after every successful apply for a group the string cached for that
\* group is the value apply returned and the cached states of all other
\* groups are as they were; and an apply whose current value is what the
\* previous apply for the same group returned never returns
\* GroupedStateLost.
C36_CacheFollowsResult ==
    /\ (KittenApplied /\ KOut[1] = "Ok") =>
            /\ KGroup \in DOMAIN last_state
            /\ last_state[KGroup].string_repr = KOut[2]
            /\ DOMAIN last_state \ {KGroup} = DOMAIN KWas.last_state \ {KGroup}
            /\ \A g \in DOMAIN last_state \ {KGroup} : last_state[g] = KWas.last_state[g]
    /\ (KittenApplied /\ KChained) => KOut # <<"Err", "GroupedStateLost">>

\* the third apply in a row for one group, each given what the one before
\* returned, while the other group is cached too
C36_Witness ==
    /\ KittenApplied /\ KChained
    /\ KGroup \in DOMAIN KWas.results
    /\ KWas.results[KGroup][2] = "1#2"
    /\ KOut = <<"Ok", "1#2#1">>
    /\ DOMAIN last_state = {<<DataType_Int(1)>>, <<DataType_Int(2)>>}

(***************************************************************************)
(* Claims about read_modify_write                                          *)
(***************************************************************************)
\* the authorities whose read_modify_write has returned Ok
RmwDone ==
    {a \in Authorities :
        IF called[a] = None THEN FALSE
        ELSE /\ unwrap(called[a]).op = "read_modify_write"
             /\ unwrap(called[a]).res # None
             /\ unwrap(unwrap(called[a]).res)[1] = "Ok"}
RmwArg(a) == unwrap(called[a]).arg
RmwStored(path) == unwrap(try_read(consul_kv, path))

\* C37: when two authorities have run read_modify_write on the same path,
\* each once on a store that held nothing under it, the value stored is what
\* the two closures make when one is applied after the other, in one order
\* or the other: no update is lost.
C37_NoLostUpdate ==
    \A a \in RmwDone, b \in RmwDone :
        (a # b /\ RmwArg(a).path = RmwArg(b).path) =>
            RmwStored(RmwArg(a).path) \in
                {f_closure(RmwArg(b).f, Some(f_closure(RmwArg(a).f, None))),
                 f_closure(RmwArg(a).f, Some(f_closure(RmwArg(b).f, None)))}

\* two calls of which one began after the other had returned
RmwInTurn(a, b) ==
    prefix_with_deployment(RmwArg(a).path) \in DOMAIN unwrap(called[b]).before.kv

\* when one call begins after the other has returned, both closures are
\* applied, the later to the result of the earlier
ReadModifyWriteInTurn ==
    \A a \in RmwDone, b \in RmwDone :
        (a # b /\ RmwArg(a).path = RmwArg(b).path /\ RmwInTurn(a, b)) =>
            RmwStored(RmwArg(a).path) =
                f_closure(RmwArg(b).f, Some(f_closure(RmwArg(a).f, None)))

====
